---- MODULE Spec2Model ----
(***************************************************************************)
(* The file-backed note store of ai-notes-system: the note model           *)
(* (models/noteModel.js), the note codec (utils/noteFormatter.js), the     *)
(* permission table (utils/authorization.js) and the handlers of the       *)
(* standalone server (index.js).                                           *)
(*                                                                         *)
(* A string is a sequence of atoms.  An atom is a one-character string,    *)
(* or a longer string standing for a substring the code never looks into   *)
(* ("topics", ".md", "---", a date, one line of a YAML block).             *)
(*                                                                         *)
(* With(e, LAMBDA x : body) stands for the body of a function after        *)
(* `const x = e`: the value is computed once and used under the name x.    *)
(***************************************************************************)
EXTENDS Integers, Sequences, FiniteSets, TLC

VARIABLES files, dirs, today, last, writers

vars == <<files, dirs, today, last, writers>>

(***************************************************************************)
(* Strings                                                                 *)
(***************************************************************************)
NL == "\n"

UpperChars == <<"A","B","C","D","E","F","G","H","I","J","K","L","M",
                "N","O","P","Q","R","S","T","U","V","W","X","Y","Z">>

LowerChars == <<"a","b","c","d","e","f","g","h","i","j","k","l","m",
                "n","o","p","q","r","s","t","u","v","w","x","y","z">>

DigitChars == <<"0","1","2","3","4","5","6","7","8","9">>

Range(s) == {s[i] : i \in DOMAIN s}

\* F applied to the value of e, which is computed once
With(e, F(_)) == CHOOSE v \in {F(x) : x \in {e}} : TRUE

\* String.prototype.toLowerCase, one character
LowerChar(c) ==
  IF \E i \in DOMAIN UpperChars : UpperChars[i] = c
    THEN LowerChars[CHOOSE i \in DOMAIN UpperChars : UpperChars[i] = c]
    ELSE c

\* String.prototype.toLowerCase
toLowerCase(s) == [i \in DOMAIN s |-> LowerChar(s[i])]

\* the character class [a-z0-9]
IsAlnum(c) == c \in Range(LowerChars) \cup Range(DigitChars)

\* String.prototype.startsWith
startsWith(s, p) == Len(p) <= Len(s) /\ SubSeq(s, 1, Len(p)) = p

\* String.prototype.endsWith
endsWith(s, p) == Len(p) <= Len(s) /\ SubSeq(s, Len(s) - Len(p) + 1, Len(s)) = p

\* String.prototype.includes
includes(s, p) ==
  \E i \in 1..(Len(s) - Len(p) + 1) : SubSeq(s, i, i + Len(p) - 1) = p

\* white space as String.prototype.trim sees it
IsSpace(c) == c \in {" ", NL, "\t", "\r"}

\* String.prototype.trim
trim(s) ==
  IF \A i \in DOMAIN s : IsSpace(s[i]) THEN <<>>
  ELSE SubSeq(s,
              CHOOSE i \in DOMAIN s :
                ~IsSpace(s[i]) /\ \A j \in 1..(i - 1) : IsSpace(s[j]),
              CHOOSE i \in DOMAIN s :
                ~IsSpace(s[i]) /\ \A j \in (i + 1)..Len(s) : IsSpace(s[j]))

\* String.prototype.split with a one-atom separator
RECURSIVE split(_, _)
split(s, sep) ==
  IF \A i \in DOMAIN s : s[i] # sep THEN <<s>>
  ELSE With(CHOOSE i \in DOMAIN s : s[i] = sep /\ \A j \in 1..(i - 1) : s[j] # sep,
            LAMBDA k : <<SubSeq(s, 1, k - 1)>> \o split(SubSeq(s, k + 1, Len(s)), sep))

\* Array.prototype.join with a one-atom separator
RECURSIVE joinWith(_, _)
joinWith(parts, sep) ==
  IF parts = <<>> THEN <<>>
  ELSE IF Len(parts) = 1 THEN parts[1]
  ELSE parts[1] \o <<sep>> \o joinWith(Tail(parts), sep)

\* an absent optional argument (undefined) and a supplied one
None == {}

Some(v) == {v}

The(opt) == CHOOSE v \in opt : TRUE

(***************************************************************************)
(* Paths (the path module of Node, POSIX flavour)                          *)
(***************************************************************************)
SEP == "/"

isAbsolute(p) == Len(p) > 0 /\ p[1] = SEP

\* resolve "." and ".." segments and drop empty ones
RECURSIVE normalizeSegs(_, _, _)
normalizeSegs(segs, acc, abs) ==
  IF segs = <<>> THEN acc
  ELSE normalizeSegs(
         Tail(segs),
         IF Head(segs) = <<>> \/ Head(segs) = <<".">> THEN acc
         ELSE IF Head(segs) # <<"..">> THEN Append(acc, Head(segs))
         ELSE IF acc # <<>> /\ acc[Len(acc)] # <<"..">>
           THEN SubSeq(acc, 1, Len(acc) - 1)
         ELSE IF abs THEN acc
         ELSE Append(acc, Head(segs)),
         abs)

\* the segments of a normalised path
segsOf(p) == normalizeSegs(split(p, SEP), <<>>, isAbsolute(p))

\* path.normalize (a trailing separator is not kept)
normalize(p) ==
  With(joinWith(segsOf(p), SEP),
       LAMBDA body : IF isAbsolute(p) THEN <<SEP>> \o body
                     ELSE IF body = <<>> THEN <<".">> ELSE body)

\* path.join of two arguments
pathJoin(a, b) ==
  normalize(IF b = <<>> THEN a ELSE IF a = <<>> THEN b ELSE a \o <<SEP>> \o b)

\* the working directory of the server process
CWD == <<SEP, "app">>

\* path.resolve of one argument
pathResolve(p) == pathJoin(IF isAbsolute(p) THEN <<>> ELSE CWD, p)

\* length of the longest common prefix of two segment lists
RECURSIVE commonLen(_, _)
commonLen(a, b) ==
  IF a = <<>> \/ b = <<>> THEN 0
  ELSE IF Head(a) # Head(b) THEN 0
  ELSE 1 + commonLen(Tail(a), Tail(b))

\* path.relative
pathRelative(from, to) ==
  With([f |-> segsOf(pathResolve(from)), t |-> segsOf(pathResolve(to))],
       LAMBDA x :
    With(commonLen(x.f, x.t),
         LAMBDA c : joinWith([i \in 1..(Len(x.f) - c) |-> <<"..">>]
                               \o SubSeq(x.t, c + 1, Len(x.t)),
                             SEP)))

\* path.basename without extension argument
basename(p) ==
  With(normalizeSegs(split(p, SEP), <<>>, TRUE),
       LAMBDA segs : IF segs = <<>> THEN <<>> ELSE segs[Len(segs)])

\* path.basename(p, ext)
basenameExt(p, ext) ==
  With(basename(p),
       LAMBDA b : IF endsWith(b, ext) /\ b # ext
                    THEN SubSeq(b, 1, Len(b) - Len(ext))
                    ELSE b)

\* path.dirname of an absolute normalised path
dirname(p) ==
  With(segsOf(p),
       LAMBDA segs : <<SEP>> \o joinWith(SubSeq(segs, 1, Len(segs) - 1), SEP))

(***************************************************************************)
(* Authorization (utils/authorization.js)                                  *)
(***************************************************************************)
\* variant: the list of research written as a copy of the list of admin
permissionsCopied ==
  [admin     |-> {"create", "read", "update", "delete", "search"},
   research  |-> {"create", "read", "update", "delete", "search"},
   writing   |-> {"create", "read", "update", "delete", "search"},
   analytics |-> {"read", "search"}]

\* the role-based permissions map
PERMISSIONS ==
  [admin     |-> {"create", "read", "update", "delete", "search"},
   research  |-> {"create", "read", "update", "search"},
   writing   |-> {"create", "read", "update", "delete", "search"},
   analytics |-> {"read", "search"}]

\* property names every object literal inherits from Object.prototype:
\* PERMISSIONS[role] is then a truthy value without an includes method
InheritedKeys == {"constructor", "toString", "__proto__"}

\* "true", "false", or "TypeError" when the call throws
isAuthorized(role, operation) ==
  IF role = "" \/ operation = "" THEN "false"
  ELSE IF role \in DOMAIN PERMISSIONS
    THEN IF operation \in PERMISSIONS[role] THEN "true" ELSE "false"
  ELSE IF role \in InheritedKeys THEN "TypeError"
  ELSE "false"

(***************************************************************************)
(* YAML (js-yaml) on the metadata mappings of the store.  A mapping is a   *)
(* function from keys to values; a dumped mapping is one atom per key,     *)
(* each followed by a newline.                                             *)
(***************************************************************************)
D1 == "2025-03-15"

D2 == "2025-03-16"

Calendar == <<D1, D2, "2025-03-17", "2025-03-18">>

\* the number of days a behaviour spans
MaxDay == 2

\* the dates of the model, in order
Dates == SubSeq(Calendar, 1, MaxDay)

\* authors of notes: a caller-supplied name, and the role the standalone
\* server records
Authors == {"bob", "admin"}

\* tag lists callers pass and files carry
TagLists == {<<>>, <<<<"a">>>>, <<<<"b">>>>, <<<<"A">>, <<"a", "b">>>>}

MetaKeys == <<"date", "tags", "related", "author", "lastModified">>

EmptyMap == [k \in {} |-> ""]

\* { ...m, [k]: v }
Put(m, k, v) == [x \in (DOMAIN m) \cup {k} |-> IF x = k THEN v ELSE m[x]]

RECURSIVE flat(_)
flat(s) == IF s = <<>> THEN "" ELSE s[1] \o flat(Tail(s))

RECURSIVE flowItems(_)
flowItems(list) ==
  IF list = <<>> THEN ""
  ELSE IF Len(list) = 1 THEN flat(list[1])
  ELSE flat(list[1]) \o ", " \o flowItems(Tail(list))

\* one line of a dumped mapping
dumpLine(k, v) ==
  k \o ": " \o (IF k \in {"tags", "related"} THEN "[" \o flowItems(v) \o "]" ELSE v)

\* the values a key can carry
ValuesOf(k) ==
  IF k = "tags" THEN TagLists
  ELSE IF k = "related" THEN {<<>>}
  ELSE IF k = "author" THEN Authors
  ELSE Range(Dates)

\* every line a dump of the model can contain, as <<line, key, value>>
DumpTable ==
  UNION {{<<dumpLine(k, v), k, v>> : v \in ValuesOf(k)} : k \in Range(MetaKeys)}

isDumpLine(a) == \E e \in DumpTable : e[1] = a

lineKey(a) == (CHOOSE e \in DumpTable : e[1] = a)[2]

lineValue(a) == (CHOOSE e \in DumpTable : e[1] = a)[3]

\* yaml.dump of a mapping
RECURSIVE dumpKeys(_, _)
dumpKeys(m, ks) ==
  IF ks = <<>> THEN <<>>
  ELSE (IF Head(ks) \in DOMAIN m
          THEN <<dumpLine(Head(ks), m[Head(ks)]), NL>> ELSE <<>>)
       \o dumpKeys(m, Tail(ks))

yamlDump(m) == IF DOMAIN m = {} THEN <<"{}", NL>> ELSE dumpKeys(m, MetaKeys)

\* the lines of a block that are not blank
contentLines(block) ==
  SelectSeq(split(block, NL), LAMBDA l : trim(l) # <<>>)

\* atoms that make a block undecodable (an unclosed flow collection)
YamlBad == {"[", "{"}

\* the kind of value the lines ls of a block decode to:
\*   "undefined" (empty document), "mapping", "scalar", or "throw"
kindOfLines(ls, block) ==
  IF ls = <<>> THEN "undefined"
  ELSE IF ls = <<<<"{}">>>> THEN "mapping"
  ELSE IF \A i \in DOMAIN ls : Len(ls[i]) = 1 /\ isDumpLine(ls[i][1])
    THEN IF \A i, j \in DOMAIN ls : i # j => lineKey(ls[i][1]) # lineKey(ls[j][1])
           THEN "mapping"
           ELSE "throw"
  ELSE IF \E i \in DOMAIN block : block[i] \in YamlBad \/ isDumpLine(block[i])
    THEN "throw"
  ELSE "scalar"

\* the mapping the lines ls decode to
mapOfLines(ls) ==
  IF ls = <<<<"{}">>>> THEN EmptyMap
  ELSE [k \in {lineKey(ls[i][1]) : i \in DOMAIN ls} |->
          lineValue((CHOOSE l \in Range(ls) : lineKey(l[1]) = k)[1])]

\* a decoded front matter: kind as above, map the mapping (empty otherwise)
yamlLoad(block) ==
  With(contentLines(block),
       LAMBDA ls :
    With(kindOfLines(ls, block),
         LAMBDA kind : [kind |-> kind,
                        map  |-> IF kind = "mapping" THEN mapOfLines(ls) ELSE EmptyMap]))

\* the object literal {}
EmptyObject == [kind |-> "mapping", map |-> EmptyMap]

\* { ...metadata }: own enumerable properties of a decoded value
spread(metadata) == metadata.map

(***************************************************************************)
(* Note codec (utils/noteFormatter.js)                                     *)
(***************************************************************************)
FENCE == "---"

MD == ".md"

\* position of the newline that opens the first closing fence, 0 if none:
\* /^---\n([\s\S]*?)\n---\n([\s\S]*)$/
fenceEnd(content) ==
  IF ~startsWith(content, <<FENCE, NL>>) THEN 0
  ELSE With({i \in 3..(Len(content) - 2) : SubSeq(content, i, i + 2) = <<NL, FENCE, NL>>},
            LAMBDA cand : IF cand = {} THEN 0
                          ELSE CHOOSE i \in cand : \A j \in cand : i <= j)

LineTerm(c) == c \in {NL, "\r"}

\* positions where /^# / matches in multiline mode
headingStarts(text) ==
  {p \in 1..(Len(text) - 1) :
     /\ p = 1 \/ LineTerm(text[p - 1])
     /\ text[p] = "#"
     /\ text[p + 1] = " "}

hasHeading(text) == headingStarts(text) # {}

\* capture group of the first match of /^# (.*?)$/m
headingText(text) ==
  With(headingStarts(text),
       LAMBDA starts :
    With(CHOOSE q \in starts : \A r \in starts : q <= r,
         LAMBDA p :
      With({e \in (p + 1)..Len(text) : e = Len(text) \/ LineTerm(text[e + 1])},
           LAMBDA ends : SubSeq(text, p + 2, CHOOSE x \in ends : \A y \in ends : x <= y))))

\* the title of a note: its first heading, or the name of its file
titleOf(text, stem) == IF hasHeading(text) THEN headingText(text) ELSE stem

parseNoteContent(content, filePath, notesDir) ==
  With([m |-> fenceEnd(content),
        stem |-> basenameExt(filePath, <<MD>>),
        id |-> pathRelative(notesDir, filePath)],
       LAMBDA c :
    IF c.m = 0
      THEN [id |-> c.id, path |-> filePath,
            title |-> titleOf(content, c.stem),
            content |-> content,
            metadata |-> EmptyObject]
    ELSE With([metadata |-> yamlLoad(SubSeq(content, 3, c.m - 1)),
               bodyContent |-> SubSeq(content, c.m + 3, Len(content))],
              LAMBDA b :
      IF b.metadata.kind = "throw"
        THEN [id |-> c.id, path |-> filePath,
              title |-> c.stem,
              content |-> content,
              metadata |-> EmptyObject]
      ELSE [id |-> c.id, path |-> filePath,
            title |-> titleOf(b.bodyContent, c.stem),
            content |-> trim(b.bodyContent),
            metadata |-> b.metadata]))

formatNoteContent(metadata, title, content) ==
  <<FENCE, NL>> \o yamlDump(metadata) \o <<FENCE, NL, NL>>
    \o (IF startsWith(trim(content), <<"#", " ">>) THEN <<>>
        ELSE <<"#", " ">> \o title \o <<NL, NL>>)
    \o content

(***************************************************************************)
(* The filesystem: files maps the absolute path of each regular file to    *)
(* its text, dirs is the set of directories.  A disk is the pair.          *)
(***************************************************************************)
\* NOTES_DIR as the container image sets it
NOTES_DIR == <<SEP, "app", SEP, "n", "o", "t", "e", "s">>

Disk(f, d) == [files |-> f, dirs |-> d]

isFile(d, p) == p \in DOMAIN d.files

isDir(d, p) == p \in d.dirs

\* p lies below dir by whole path segments
under(p, dir) ==
  With([ps |-> segsOf(p), ds |-> segsOf(dir)],
       LAMBDA x : Len(x.ps) > Len(x.ds) /\ SubSeq(x.ps, 1, Len(x.ds)) = x.ds)

\* the directories above p, p excluded
ancestors(p) ==
  With(segsOf(p),
       LAMBDA segs : {<<SEP>> \o joinWith(SubSeq(segs, 1, n), SEP) :
                        n \in 0..(Len(segs) - 1)})

\* fs.access: does anything exist at p
accessOk(d, p) == isFile(d, p) \/ isDir(d, p)

\* a regular file stands where the path p needs a directory
throughFile(d, p) == \E q \in ancestors(p) : isFile(d, q)

\* fs.access: "ok" or the error code
accessErr(d, p) ==
  IF accessOk(d, p) THEN "ok" ELSE IF throughFile(d, p) THEN "ENOTDIR" ELSE "ENOENT"

\* fs.mkdir(p, {recursive: true}) succeeds unless a file is in the way
mkdirOk(d, p) == \A q \in ancestors(p) \cup {p} : ~isFile(d, q)

mkdirp(d, p) == Disk(d.files, d.dirs \cup ancestors(p) \cup {p})

\* fs.writeFile: "ok", "ENOENT" (no parent directory) or "EISDIR"
writeErr(d, p) ==
  IF isDir(d, p) THEN "EISDIR"
  ELSE IF ~isDir(d, dirname(p)) THEN "ENOENT"
  ELSE "ok"

\* variant: the text a write replaces is kept in a file beside the target
writeFileKeeping(d, p, text) ==
  Disk([q \in (DOMAIN d.files) \cup {p}
               \cup (IF p \in DOMAIN d.files THEN {pathJoin(dirname(p), <<"old", MD>>)} ELSE {}) |->
          IF q = p THEN text
          ELSE IF q = pathJoin(dirname(p), <<"old", MD>>) THEN d.files[p]
          ELSE d.files[q]],
       d.dirs)

writeFile(d, p, text) ==
  Disk([q \in (DOMAIN d.files) \cup {p} |-> IF q = p THEN text ELSE d.files[q]],
       d.dirs)

\* fs.readFile: "ok", "ENOENT" or "EISDIR"
readErr(d, p) ==
  IF isFile(d, p) THEN "ok"
  ELSE IF isDir(d, p) THEN "EISDIR"
  ELSE IF throughFile(d, p) THEN "ENOTDIR"
  ELSE "ENOENT"

\* fs.unlink of a regular file
unlink(d, p) ==
  Disk([q \in (DOMAIN d.files) \ {p} |-> d.files[q]], d.dirs)

\* fs.rename: "ok" or the error code
renameErr(d, from, to) ==
  IF ~accessOk(d, from) THEN accessErr(d, from)
  ELSE IF from = to THEN "ok"
  ELSE IF isFile(d, from)
    THEN IF isDir(d, to) THEN "EISDIR"
         ELSE IF ~isDir(d, dirname(to)) THEN "ENOENT" ELSE "ok"
  ELSE IF under(to, from) THEN "EINVAL"
  ELSE IF isFile(d, to) THEN "ENOTDIR"
  ELSE IF isDir(d, to) /\ \E q \in (DOMAIN d.files) \cup d.dirs : under(q, to)
    THEN "ENOTEMPTY"
  ELSE "ok"

\* the paths of S at or below from
subtree(S, from) == {q \in S : q = from \/ under(q, from)}

\* the path a path at or below from gets when from is moved to to
moved(q, from, to) == to \o SubSeq(q, Len(from) + 1, Len(q))

\* fs.rename of a directory with everything below it
renameDir(d, from, to) ==
  With([moveF |-> subtree(DOMAIN d.files, from), moveD |-> subtree(d.dirs, from)],
       LAMBDA x :
    Disk([q \in ((DOMAIN d.files) \ x.moveF) \cup {moved(y, from, to) : y \in x.moveF} |->
            IF q \in DOMAIN d.files /\ q \notin x.moveF THEN d.files[q]
            ELSE d.files[CHOOSE y \in x.moveF : moved(y, from, to) = q]],
         (d.dirs \ x.moveD) \cup {moved(y, from, to) : y \in x.moveD}))

\* variant: the file is copied to its new path and stays at the old one
renameCopy(d, from, to) ==
  IF isFile(d, from) THEN writeFile(d, to, d.files[from]) ELSE d

\* fs.rename of a file (replacing a file at to) or of a directory
rename(d, from, to) ==
  IF from = to THEN d
  ELSE IF isFile(d, from)
    THEN Disk([q \in ((DOMAIN d.files) \ {from}) \cup {to} |->
                 IF q = to THEN d.files[from] ELSE d.files[q]],
              d.dirs)
  ELSE renameDir(d, from, to)

(***************************************************************************)
(* Note model (models/noteModel.js).  Every operation is an operator from  *)
(* the disk and the arguments to a result:                                 *)
(*   outcome  "ok", "notfound" (null), "denied" (Insufficient              *)
(*            permissions), "invalid_path" (Invalid note path) or "error"  *)
(*            (any other exception)                                        *)
(*   id       the id the operation returns, <<>> if none                   *)
(*   note     the record returned by get, as an optional value             *)
(*   notes    the sequence returned by list and search                     *)
(*   files, dirs   the disk afterwards                                     *)
(*   calls    the filesystem calls made, in order                          *)
(***************************************************************************)
Res(outcome, id, note, notes, d, calls) ==
  [outcome |-> outcome, id |-> id, note |-> note, notes |-> notes,
   files |-> d.files, dirs |-> d.dirs, calls |-> calls]

Fail(outcome, d, calls) == Res(outcome, <<>>, None, <<>>, d, calls)

\* variant: the gate asks whether the role is known, not what it may do
gateKnownRole(role, operation) ==
  IF role \in DOMAIN PERMISSIONS THEN "pass" ELSE "denied"

\* the outcome of the permission gate at the head of every operation:
\* "pass", "denied", or "error" when isAuthorized itself throws
gate(role, operation) ==
  With(isAuthorized(role, operation),
       LAMBDA a : IF a = "true" THEN "pass" ELSE IF a = "false" THEN "denied" ELSE "error")

\* the path check: resolvedPath.startsWith(path.resolve(NOTES_DIR))
pathCheck(noteId) ==
  startsWith(pathResolve(pathJoin(NOTES_DIR, noteId)), pathResolve(NOTES_DIR))

SUBDIRS == <<<<"topics">>, <<"projects">>, <<"references">>, <<"archive">>>>

ensureNotesDirectory(d) ==
  IF accessOk(d, NOTES_DIR) THEN [disk |-> d, calls |-> <<"access">>]
  ELSE [disk |-> Disk(d.files,
                      d.dirs \cup ancestors(NOTES_DIR) \cup {NOTES_DIR}
                        \cup {pathJoin(NOTES_DIR, SUBDIRS[i]) : i \in DOMAIN SUBDIRS}),
        calls |-> <<"access", "mkdir", "mkdir", "mkdir", "mkdir", "mkdir">>]

\* title.toLowerCase().replace(/[^a-z0-9]+/g, '_') on a lower-cased string
RECURSIVE replaceRuns(_)
replaceRuns(s) ==
  IF s = <<>> THEN <<>>
  ELSE IF IsAlnum(s[1]) THEN <<s[1]>> \o replaceRuns(Tail(s))
  ELSE <<"_">> \o replaceRuns(SubSeq(s,
                                     1 + CHOOSE k \in 1..Len(s) :
                                           /\ \A j \in 1..k : ~IsAlnum(s[j])
                                           /\ k = Len(s) \/ IsAlnum(s[k + 1]),
                                     Len(s)))

\* variant: a separator at the end of the slug is dropped
slugTrimmed(title) ==
  With(replaceRuns(toLowerCase(title)),
       LAMBDA s : IF s # <<>> /\ s[Len(s)] = "_" THEN SubSeq(s, 1, Len(s) - 1) ELSE s)

slugOf(title) == replaceRuns(toLowerCase(title))

\* position of a date in the calendar: YYYY-MM-DD strings compare as dates
dateIndex(dt) == CHOOSE i \in DOMAIN Dates : Dates[i] = dt

\* note.metadata.date, as an optional value
dateOf(note) ==
  IF "date" \in DOMAIN note.metadata.map THEN Some(note.metadata.map.date) ELSE None

\* a > b on two values that may be undefined
dateGt(a, b) == a # None /\ b # None /\ dateIndex(The(a)) > dateIndex(The(b))

\* the comparator of getAllNotesInternal
cmpDate(a, b) ==
  With([a |-> dateOf(a), b |-> dateOf(b)],
       LAMBDA x : IF dateGt(x.a, x.b) THEN 0 - 1 ELSE IF dateGt(x.b, x.a) THEN 1 ELSE 0)

\* Array.prototype.sort as the engine of the image (node 18, V8) runs it on
\* an array shorter than 64 elements: the run at the head of the array is
\* counted, reversed when it strictly descends, and every later element is
\* added by binary insertion.  The array is a sequence p of indices and the
\* comparator a table c, c[i][j] the value of comparefn(element i, element j).

\* the length of the run at the head of p
countRun(p, c) ==
  IF Len(p) < 2 THEN Len(p)
  ELSE CHOOSE k \in 2..Len(p) :
         /\ \A idx \in 3..k : (c[p[idx]][p[idx - 1]] < 0) <=> (c[p[2]][p[1]] < 0)
         /\ k < Len(p) => ~((c[p[k + 1]][p[k]] < 0) <=> (c[p[2]][p[1]] < 0))

\* p with its first k elements reversed
reverseRange(p, k) == [i \in DOMAIN p |-> IF i <= k THEN p[k + 1 - i] ELSE p[i]]

\* the position the binary search gives the pivot among p[left..right-1]
RECURSIVE searchLeft(_, _, _, _, _)
searchLeft(p, c, pivot, left, right) ==
  IF left >= right THEN left
  ELSE IF c[pivot][p[left + ((right - left) \div 2)]] < 0
    THEN searchLeft(p, c, pivot, left, left + ((right - left) \div 2))
  ELSE searchLeft(p, c, pivot, left + ((right - left) \div 2) + 1, right)

\* p with the element at start moved to position left
insertAt(p, start, left) ==
  SubSeq(p, 1, left - 1) \o <<p[start]>> \o SubSeq(p, left, start - 1)
    \o SubSeq(p, start + 1, Len(p))

RECURSIVE binaryInsertionSort(_, _, _)
binaryInsertionSort(p, c, start) ==
  IF start > Len(p) THEN p
  ELSE binaryInsertionSort(insertAt(p, start, searchLeft(p, c, p[start], 1, start)),
                           c, start + 1)

\* the order in which sort leaves the elements 1..n
timSort(n, c) ==
  With([p |-> [i \in 1..n |-> i]],
       LAMBDA x :
    With(countRun(x.p, c),
         LAMBDA k :
      binaryInsertionSort(IF n >= 2 /\ c[2][1] < 0 THEN reverseRange(x.p, k) ELSE x.p,
                          c, k + 1)))

\* notes.sort(cmpDate)
sortByDate(l) ==
  With(timSort(Len(l), [i \in DOMAIN l |-> [j \in DOMAIN l |-> cmpDate(l[i], l[j])]]),
       LAMBDA p : [k \in DOMAIN l |-> l[p[k]]])

\* the .md files the recursive walk of processDirectory reaches
walkFiles(d) ==
  {p \in DOMAIN d.files : under(p, NOTES_DIR) /\ endsWith(basename(p), <<MD>>)}

\* the directories the walk reads
walkDirs(d) == {q \in d.dirs : q = NOTES_DIR \/ under(q, NOTES_DIR)}

\* f lists the files S in an order the walk can visit them in: each file
\* once, the files below one directory next to each other
isWalk(f, S) ==
  /\ \A i, j \in DOMAIN f : i # j => f[i] # f[j]
  /\ \A i, k \in DOMAIN f : \A j \in i..k :
       (ancestors(f[i]) \cap ancestors(f[k])) \subseteq ancestors(f[j])

\* an order in which readdir hands out the files of the walk
walkOrder(S) == CHOOSE f \in [1..Cardinality(S) -> S] : isWalk(f, S)

\* the notes of the walk, parsed, in the order of the walk
walkNotes(d) ==
  With(walkOrder(walkFiles(d)),
       LAMBDA order : [i \in DOMAIN order |->
                         parseNoteContent(d.files[order[i]], order[i], NOTES_DIR)])

\* a.metadata.date throws when the front matter decoded to undefined
sortThrows(notes) ==
  Len(notes) >= 2 /\ \E i \in DOMAIN notes : notes[i].metadata.kind = "undefined"

getAllNotesInternal(d0) ==
  With(ensureNotesDirectory(d0),
       LAMBDA e :
    With(walkNotes(e.disk),
         LAMBDA notes :
      [err |-> sortThrows(notes),
       notes |-> IF sortThrows(notes) THEN <<>> ELSE sortByDate(notes),
       disk |-> e.disk,
       calls |-> e.calls \o [i \in 1..Cardinality(walkDirs(e.disk)) |-> "readdir"]
                   \o [i \in DOMAIN notes |-> "readFile"]]))

\* variant: a tag of the note contains the filter tag, in any letter case
hasTagLoosely(note, tag) ==
  /\ "tags" \in DOMAIN note.metadata.map
  /\ \E i \in DOMAIN note.metadata.map.tags :
       includes(toLowerCase(note.metadata.map.tags[i]), toLowerCase(tag))

\* note.metadata.tags && note.metadata.tags.includes(tag)
hasTag(note, tag) ==
  /\ "tags" \in DOMAIN note.metadata.map
  /\ \E i \in DOMAIN note.metadata.map.tags : note.metadata.map.tags[i] = tag

\* note.path.includes(`/${category}/`)
inCategory(note, category) == includes(note.path, <<SEP>> \o category \o <<SEP>>)

\* the three filters of getAllNotes, in the order the code applies them
keptByList(note, tagList, category, keyword) ==
  /\ tagList # <<>> => \E i \in DOMAIN tagList : hasTag(note, tagList[i])
  /\ category # <<>> => inCategory(note, category)
  /\ keyword # <<>> =>
       \/ includes(toLowerCase(note.content), toLowerCase(keyword))
       \/ includes(toLowerCase(note.title), toLowerCase(keyword))

getAllNotes(d0, role, tags, category, keyword) ==
  With(gate(role, "read"),
       LAMBDA g :
    IF g # "pass" THEN Fail(g, d0, <<>>)
    ELSE
      With(ensureNotesDirectory(d0),
           LAMBDA e :
        With(getAllNotesInternal(e.disk),
             LAMBDA all :
          \* note.metadata.tags throws when metadata is undefined
          IF \/ all.err
             \/ tags # <<>> /\ \E i \in DOMAIN all.notes :
                                 all.notes[i].metadata.kind = "undefined"
            THEN Fail("error", all.disk, e.calls \o all.calls)
          ELSE Res("ok", <<>>, None,
                   SelectSeq(all.notes,
                             LAMBDA n : keptByList(n,
                                                   IF tags = <<>> THEN <<>>
                                                   ELSE split(tags, ","),
                                                   category, keyword)),
                   all.disk, e.calls \o all.calls))))

getNoteById(d, role, noteId) ==
  With([g |-> gate(role, "read"), notePath |-> pathJoin(NOTES_DIR, noteId)],
       LAMBDA x :
    IF x.g # "pass" THEN Fail(x.g, d, <<>>)
    ELSE IF ~pathCheck(noteId) THEN Fail("invalid_path", d, <<>>)
    ELSE
      With(readErr(d, x.notePath),
           LAMBDA err :
        IF err = "ENOENT" THEN Fail("notfound", d, <<"readFile">>)
        ELSE IF err # "ok" THEN Fail("error", d, <<"readFile">>)
        ELSE Res("ok", <<>>,
                 Some(parseNoteContent(d.files[x.notePath], x.notePath, NOTES_DIR)),
                 <<>>, d, <<"readFile">>)))

createNote(d0, now, role, title, content, tags, category, author) ==
  With(gate(role, "create"),
       LAMBDA g :
    IF g # "pass" THEN Fail(g, d0, <<>>)
    ELSE
      With([e |-> ensureNotesDirectory(d0),
            categoryDir |-> pathJoin(NOTES_DIR, category)],
           LAMBDA x :
        With([filePath |-> pathJoin(x.categoryDir, <<now, "_">> \o slugOf(title) \o <<MD>>),
              d1 |-> mkdirp(x.e.disk, x.categoryDir)],
             LAMBDA y :
          IF ~mkdirOk(x.e.disk, x.categoryDir)
            THEN Fail("error", x.e.disk, x.e.calls \o <<"mkdir">>)
          ELSE IF writeErr(y.d1, y.filePath) # "ok"
            THEN Fail("error", y.d1, x.e.calls \o <<"mkdir", "writeFile">>)
          ELSE Res("ok", pathRelative(NOTES_DIR, y.filePath), None, <<>>,
                   writeFile(y.d1, y.filePath,
                             formatNoteContent([date |-> now, tags |-> tags,
                                                related |-> <<>>, author |-> author],
                                               title, content)),
                   x.e.calls \o <<"mkdir", "writeFile">>))))

\* the checks at the head of update, append and delete: the permission, the
\* path, the existence of the file; "pass" or the failure
entry(d, role, operation, noteId, notePath) ==
  With(gate(role, operation),
       LAMBDA g :
    IF g # "pass" THEN Fail(g, d, <<>>)
    ELSE IF ~pathCheck(noteId) THEN Fail("invalid_path", d, <<>>)
    ELSE IF accessErr(d, notePath) = "ENOENT" THEN Fail("notfound", d, <<"access">>)
    ELSE IF accessErr(d, notePath) # "ok" THEN Fail("error", d, <<"access">>)
    ELSE Res("pass", <<>>, None, <<>>, d, <<"access">>))

\* the text updateNote writes back, from the text it read
updatedContent(existingContent, notePath, now, title, content, tags) ==
  With(parseNoteContent(existingContent, notePath, NOTES_DIR),
       LAMBDA note :
    With(Put(spread(note.metadata), "lastModified", now),
         LAMBDA stamped :
      formatNoteContent(
        IF tags # None THEN Put(stamped, "tags", The(tags)) ELSE stamped,
        IF title # <<>> THEN title ELSE note.title,
        IF content # <<>> THEN content ELSE note.content)))

\* the text appendToNote writes back, from the text it read
appendedContent(existingContent, notePath, now, content) ==
  With(parseNoteContent(existingContent, notePath, NOTES_DIR),
       LAMBDA note :
    formatNoteContent(Put(spread(note.metadata), "lastModified", now),
                      note.title,
                      note.content \o <<NL, NL>> \o content))

updateNote(d, now, role, noteId, title, content, tags) ==
  With([notePath |-> pathJoin(NOTES_DIR, noteId)],
       LAMBDA x :
    With(entry(d, role, "update", noteId, x.notePath),
         LAMBDA chk :
      IF chk.outcome # "pass" THEN chk
      ELSE IF readErr(d, x.notePath) # "ok" THEN Fail("error", d, <<"access", "readFile">>)
      ELSE
        Res("ok", noteId, None, <<>>,
            writeFile(d, x.notePath,
                      updatedContent(d.files[x.notePath], x.notePath, now,
                                     title, content, tags)),
            <<"access", "readFile", "writeFile">>)))

deleteNote(d, role, noteId, shouldArchive) ==
  With([notePath |-> pathJoin(NOTES_DIR, noteId),
        archiveDir |-> pathJoin(NOTES_DIR, <<"archive">>)],
       LAMBDA x :
    With([chk |-> entry(d, role, "delete", noteId, x.notePath),
          archivePath |-> pathJoin(x.archiveDir, basename(x.notePath)),
          d1 |-> mkdirp(d, x.archiveDir)],
         LAMBDA y :
      IF y.chk.outcome # "pass" THEN y.chk
      ELSE IF shouldArchive
        THEN IF ~mkdirOk(d, x.archiveDir) THEN Fail("error", d, <<"access", "mkdir">>)
             ELSE IF renameErr(y.d1, x.notePath, y.archivePath) # "ok"
               THEN Fail("error", y.d1, <<"access", "mkdir", "rename">>)
             ELSE Res("ok", pathRelative(NOTES_DIR, y.archivePath), None, <<>>,
                      rename(y.d1, x.notePath, y.archivePath),
                      <<"access", "mkdir", "rename">>)
      ELSE IF ~isFile(d, x.notePath) THEN Fail("error", d, <<"access", "unlink">>)
      ELSE Res("ok", <<>>, None, <<>>, unlink(d, x.notePath), <<"access", "unlink">>)))

appendToNote(d, now, role, noteId, content) ==
  With([notePath |-> pathJoin(NOTES_DIR, noteId)],
       LAMBDA x :
    With(entry(d, role, "update", noteId, x.notePath),
         LAMBDA chk :
      IF chk.outcome # "pass" THEN chk
      ELSE IF readErr(d, x.notePath) # "ok" THEN Fail("error", d, <<"access", "readFile">>)
      ELSE
        Res("ok", noteId, None, <<>>,
            writeFile(d, x.notePath,
                      appendedContent(d.files[x.notePath], x.notePath, now, content)),
            <<"access", "readFile", "writeFile">>)))

\* atoms that make new RegExp(query) throw a SyntaxError wherever they stand
RegexBad == {"(", ")", "["}

\* quantifiers: a SyntaxError at the head of a pattern
RegexQuantifier == {"*", "+", "?"}

\* new RegExp(query, 'g') does not throw
regexValid(q) ==
  /\ \A i \in DOMAIN q : q[i] \notin RegexBad
  /\ q = <<>> \/ (q[1] \notin RegexQuantifier /\ q[Len(q)] # "\\")

\* the pattern q (literal atoms, "." for any character but a newline)
\* matches text at position i
matchAt(text, q, i) ==
  /\ i + Len(q) - 1 <= Len(text)
  /\ \A j \in DOMAIN q :
       IF q[j] = "." THEN text[i + j - 1] # NL ELSE text[i + j - 1] = q[j]

\* (text.match(new RegExp(q, 'g')) || []).length from position i on
RECURSIVE countFrom(_, _, _)
countFrom(text, q, i) ==
  IF q = <<>> THEN Len(text) + 2 - i
  ELSE IF i + Len(q) - 1 > Len(text) THEN 0
  ELSE IF matchAt(text, q, i) THEN 1 + countFrom(text, q, i + Len(q))
  ELSE countFrom(text, q, i + 1)

\* the number of matches of q in a text
count(text, q) == countFrom(toLowerCase(text), toLowerCase(q), 1)

\* the relevance the comparator of searchNotes computes
relevance(note, query) == count(note.title, query) + count(note.content, query)

\* results.sort((a, b) => countB - countA)
sortByRelevance(l, query) ==
  With([r |-> [i \in DOMAIN l |-> relevance(l[i], query)]],
       LAMBDA x :
    With(timSort(Len(l), [i \in DOMAIN l |-> [j \in DOMAIN l |-> x.r[j] - x.r[i]]]),
         LAMBDA p : [k \in DOMAIN l |-> l[p[k]]]))

\* no filters: the default value {} of the filters argument
NoFilters == [tags |-> <<>>, category |-> <<>>, dateRange |-> None]

matchesQuery(note, query) ==
  With(toLowerCase(query),
       LAMBDA q : includes(toLowerCase(note.title), q) \/ includes(toLowerCase(note.content), q))

\* the date of a note lies in a range
inRange(date, range) ==
  /\ ~(range.start # None /\ dateGt(range.start, date))
  /\ ~(range.end # None /\ dateGt(date, range.end))

\* the filter callback of searchNotes returns true
keptBySearch(note, query, filters) ==
  /\ matchesQuery(note, query)
  /\ filters.tags # <<>> =>
       \E i \in DOMAIN filters.tags : hasTag(note, filters.tags[i])
  /\ filters.category # <<>> => inCategory(note, filters.category)
  /\ filters.dateRange # None => inRange(dateOf(note), The(filters.dateRange))

\* the filter callback reads a property of an undefined metadata
filterThrows(note, query, filters) ==
  /\ note.metadata.kind = "undefined"
  /\ matchesQuery(note, query)
  /\ \/ filters.tags # <<>>
     \/ /\ filters.dateRange # None
        /\ filters.category # <<>> => inCategory(note, filters.category)

searchNotes(d0, role, query, filters) ==
  With(gate(role, "read"),
       LAMBDA g :
    IF g # "pass" THEN Fail(g, d0, <<>>)
    ELSE
      With(getAllNotesInternal(d0),
           LAMBDA all :
        With(SelectSeq(all.notes, LAMBDA n : keptBySearch(n, query, filters)),
             LAMBDA results :
          IF \/ all.err
             \/ \E i \in DOMAIN all.notes : filterThrows(all.notes[i], query, filters)
             \/ Len(results) >= 2 /\ ~regexValid(toLowerCase(query))
            THEN Fail("error", all.disk, all.calls)
          ELSE Res("ok", <<>>, None, sortByRelevance(results, query), all.disk, all.calls))))

(***************************************************************************)
(* The standalone server (index.js): each handler is an operator from the  *)
(* disk and the request to a result, as for the note model.  The outcome   *)
(* "invalid" is the answer 400 to a request that lacks a required field.   *)
(***************************************************************************)
\* the roles the handlers list as allowed to create, update and append
WRITERS == {"admin", "research", "writing"}

\* the roles the DELETE handler lists
DELETERS == {"admin", "writing"}

\* the directories the server makes when it starts
startup(d) ==
  Disk(d.files,
       d.dirs \cup ancestors(NOTES_DIR) \cup {NOTES_DIR}
         \cup {pathJoin(NOTES_DIR, SUBDIRS[i]) : i \in DOMAIN SUBDIRS})

\* `---\n${metadataYaml}---\n\n# ${title}\n\n${content}`
withHeading(metadata, title, content) ==
  <<FENCE, NL>> \o yamlDump(metadata) \o <<FENCE, NL, NL>>
    \o <<"#", " ">> \o title \o <<NL, NL>> \o content

\* GET /notes/:id
getNoteHandler(d, role, noteId) ==
  With([notePath |-> pathJoin(NOTES_DIR, noteId)],
       LAMBDA x :
    IF ~pathCheck(noteId) THEN Fail("invalid_path", d, <<>>)
    ELSE
      With(readErr(d, x.notePath),
           LAMBDA err :
        IF err = "ENOENT" THEN Fail("notfound", d, <<"readFile">>)
        ELSE IF err # "ok" THEN Fail("error", d, <<"readFile">>)
        ELSE Res("ok", <<>>,
                 Some(parseNoteContent(d.files[x.notePath], x.notePath, NOTES_DIR)),
                 <<>>, d, <<"readFile">>)))

\* POST /notes
postNoteHandler(d, now, role, title, content, tags, category) ==
  IF title = <<>> \/ content = <<>> THEN Fail("invalid", d, <<>>)
  ELSE IF role \notin WRITERS THEN Fail("denied", d, <<>>)
  ELSE
    With([categoryDir |-> pathJoin(NOTES_DIR, category)],
         LAMBDA x :
      With([filePath |-> pathJoin(x.categoryDir, <<now, "_">> \o slugOf(title) \o <<MD>>),
            d1 |-> mkdirp(d, x.categoryDir)],
           LAMBDA y :
        IF ~mkdirOk(d, x.categoryDir) THEN Fail("error", d, <<"mkdir">>)
        ELSE IF writeErr(y.d1, y.filePath) # "ok"
          THEN Fail("error", y.d1, <<"mkdir", "writeFile">>)
        ELSE Res("ok", pathRelative(NOTES_DIR, y.filePath), None, <<>>,
                 writeFile(y.d1, y.filePath,
                           withHeading([date |-> now, tags |-> tags,
                                        related |-> <<>>, author |-> role],
                                       title, content)),
                 <<"mkdir", "writeFile">>)))

\* PUT /notes/:id
putNoteHandler(d, now, role, noteId, title, content, tags) ==
  With([notePath |-> pathJoin(NOTES_DIR, noteId)],
       LAMBDA x :
    IF ~pathCheck(noteId) THEN Fail("invalid_path", d, <<>>)
    ELSE IF ~accessOk(d, x.notePath) THEN Fail("notfound", d, <<"access">>)
    ELSE IF role \notin WRITERS THEN Fail("denied", d, <<"access">>)
    ELSE IF readErr(d, x.notePath) # "ok" THEN Fail("error", d, <<"access", "readFile">>)
    ELSE
      With(parseNoteContent(d.files[x.notePath], x.notePath, NOTES_DIR),
           LAMBDA note :
        With(Put(spread(note.metadata), "lastModified", now),
             LAMBDA stamped :
          Res("ok", noteId, None, <<>>,
              writeFile(d, x.notePath,
                        withHeading(
                          IF tags # None THEN Put(stamped, "tags", The(tags)) ELSE stamped,
                          IF title # <<>> THEN title ELSE note.title,
                          IF content # <<>> THEN content ELSE note.content)),
              <<"access", "readFile", "writeFile">>))))

\* DELETE /notes/:id
deleteNoteHandler(d, role, noteId, archive) ==
  With([notePath |-> pathJoin(NOTES_DIR, noteId),
        archiveDir |-> pathJoin(NOTES_DIR, <<"archive">>)],
       LAMBDA x :
    With([archivePath |-> pathJoin(x.archiveDir, basename(x.notePath)),
          d1 |-> mkdirp(d, x.archiveDir)],
         LAMBDA y :
      IF role \notin DELETERS THEN Fail("denied", d, <<>>)
      ELSE IF ~pathCheck(noteId) THEN Fail("invalid_path", d, <<>>)
      ELSE IF archive
        THEN IF ~mkdirOk(d, x.archiveDir) THEN Fail("error", d, <<"mkdir">>)
             ELSE
               With(renameErr(y.d1, x.notePath, y.archivePath),
                    LAMBDA err :
                 IF err = "ENOENT" THEN Fail("notfound", y.d1, <<"mkdir", "rename">>)
                 ELSE IF err # "ok" THEN Fail("error", y.d1, <<"mkdir", "rename">>)
                 ELSE Res("ok", pathRelative(NOTES_DIR, y.archivePath), None, <<>>,
                          rename(y.d1, x.notePath, y.archivePath), <<"mkdir", "rename">>))
      ELSE IF accessErr(d, x.notePath) = "ENOENT" THEN Fail("notfound", d, <<"unlink">>)
      ELSE IF ~isFile(d, x.notePath) THEN Fail("error", d, <<"unlink">>)
      ELSE Res("ok", <<>>, None, <<>>, unlink(d, x.notePath), <<"unlink">>)))

\* POST /notes/:id/append
appendHandler(d, role, noteId, content) ==
  With([notePath |-> pathJoin(NOTES_DIR, noteId)],
       LAMBDA x :
    IF content = <<>> THEN Fail("invalid", d, <<>>)
    ELSE IF role \notin WRITERS THEN Fail("denied", d, <<>>)
    ELSE IF ~pathCheck(noteId) THEN Fail("invalid_path", d, <<>>)
    ELSE
      With(readErr(d, x.notePath),
           LAMBDA err :
        IF err = "ENOENT" THEN Fail("notfound", d, <<"readFile">>)
        ELSE IF err # "ok" THEN Fail("error", d, <<"readFile">>)
        ELSE Res("ok", noteId, None, <<>>,
                 writeFile(d, x.notePath, d.files[x.notePath] \o <<NL, NL>> \o content),
                 <<"readFile", "writeFile">>)))


(***************************************************************************)
(* The router (routes/notesRoutes.js) with its middleware                  *)
(* (middleware/auth.js): every request passes authenticateAgent, then the  *)
(* authorize of its route, then the controller.                            *)
(***************************************************************************)
\* variant: the deleters written as a copy of the editors
rolesCopied ==
  [ALL      |-> {"admin", "research", "writing", "analytics"},
   CREATORS |-> {"admin", "research", "writing"},
   EDITORS  |-> {"admin", "research", "writing"},
   DELETERS |-> {"admin", "research", "writing"},
   READERS  |-> {"admin", "research", "writing", "analytics"}]

\* the role lists of the routes
ROLES ==
  [ALL      |-> {"admin", "research", "writing", "analytics"},
   CREATORS |-> {"admin", "research", "writing"},
   EDITORS  |-> {"admin", "research", "writing"},
   DELETERS |-> {"admin", "writing"},
   READERS  |-> {"admin", "research", "writing", "analytics"}]

\* authenticateAgent: the answer 401 without a key, 403 for a key that the
\* key table maps to no role, else the role attached to the request
authenticateAgent(apiKeys, apiKey) ==
  IF apiKey = "" THEN [status |-> "401", role |-> ""]
  ELSE IF apiKey \notin DOMAIN apiKeys \/ apiKeys[apiKey] = ""
    THEN [status |-> "403", role |-> ""]
  ELSE [status |-> "next", role |-> apiKeys[apiKey]]

\* the middleware authorize(allowedRoles) on a request of a role
authorize(allowedRoles, role) ==
  IF role = "" THEN "401"
  ELSE IF role \notin allowedRoles /\ "*" \notin allowedRoles THEN "403"
  ELSE "next"

\* the routes: the role list of each and the function of the note model
\* its controller calls
router ==
  {[route |-> "GET /",            allowed |-> ROLES.READERS,  model |-> "getAllNotes"],
   [route |-> "GET /:id",         allowed |-> ROLES.READERS,  model |-> "getNoteById"],
   [route |-> "POST /",           allowed |-> ROLES.CREATORS, model |-> "createNote"],
   [route |-> "PUT /:id",         allowed |-> ROLES.EDITORS,  model |-> "updateNote"],
   [route |-> "DELETE /:id",      allowed |-> ROLES.DELETERS, model |-> "deleteNote"],
   [route |-> "POST /:id/append", allowed |-> ROLES.EDITORS,  model |-> "appendToNote"],
   [route |-> "POST /search",     allowed |-> ROLES.READERS,  model |-> "searchNotes"]}

\* the operation each function of the note model asks isAuthorized for
checkedOperation ==
  [getAllNotes  |-> "read",
   getNoteById  |-> "read",
   createNote   |-> "create",
   updateNote   |-> "update",
   deleteNote   |-> "delete",
   appendToNote |-> "update",
   searchNotes  |-> "read"]
(***************************************************************************)
(* The store as a state machine: one action per operation of the note      *)
(* model and per handler of the standalone server, each running the whole  *)
(* operation on the disk.  An action draws its arguments from the sets of  *)
(* an input record; a specification is an initial disk and the actions     *)
(* over one input record.                                                  *)
(***************************************************************************)
\* the longest file text an append or a PUT may produce
MaxText == 27

\* the most files a create may leave on the disk
MaxNotes == 2

ShortTitle == <<"T">>

QuantumTitle ==
  <<"Q", "u", "a", "n", "t", "u", "m", " ",
    "C", "o", "m", "p", "u", "t", "i", "n", "g", "!", "!">>

Body == <<"b", "o", "d", "y">>

TagA == <<<<"a">>>>

TagB == <<<<"b">>>>

TagMixed == <<<<"A">>, <<"a", "b">>>>

Topics == <<"topics">>

Projects == <<"projects">>

\* a directory beside the root whose name starts with the name of the root
SiblingDir == <<"..", SEP, "n", "o", "t", "e", "s", "2">>

\* an id inside the root that no file of the model bears
AbsentId == <<"topics", SEP, "x", MD>>

\* ids outside the root: far away, and in the sibling directory
OutsideIds ==
  {<<"..", SEP, "..", SEP, "etc", SEP, "x", MD>>,
   SiblingDir \o <<SEP, "x", MD>>}

disk == Disk(files, dirs)

\* the ids of the files on a disk
NoteIds(d) == {pathRelative(NOTES_DIR, p) : p \in DOMAIN d.files}

\* no operation is in flight between two of its filesystem calls
NoWriters == <<>>

\* what the state remembers of the last operation: the call and its result
Record(op, role, id, args, r) ==
  [op |-> op, role |-> role, id |-> id, args |-> args,
   outcome |-> r.outcome, rid |-> r.id, note |-> r.note, calls |-> r.calls]

\* a call that has not run yet
Pending(op, role, args) ==
  [op |-> op, role |-> role, id |-> <<>>, args |-> args,
   outcome |-> "", rid |-> <<>>, note |-> None, calls |-> <<>>]

NoOp == Pending("init", "", EmptyMap)

\* the working directory exists, and the root does when the image made it;
\* on a bare host the first operation makes it
Init ==
  /\ files = EmptyMap
  /\ \E made \in BOOLEAN :
       dirs = ancestors(CWD) \cup {CWD} \cup (IF made THEN {NOTES_DIR} ELSE {})
  /\ today = Dates[1]
  /\ writers = NoWriters
  /\ last = NoOp

\* midnight passes
Tick ==
  /\ dateIndex(today) < MaxDay
  /\ today' = Dates[dateIndex(today) + 1]
  /\ UNCHANGED <<files, dirs, last, writers>>

ListNotes(in) ==
  \E role \in in.roles, tags \in in.tagFilters, category \in in.listCategories :
    \E r \in {getAllNotes(disk, role, tags, category, <<>>)} :
       /\ files' = r.files
       /\ dirs' = r.dirs
       /\ last' = Record("getAllNotes", role, <<>>,
                         [tags |-> tags, category |-> category, notes |-> r.notes], r)
       /\ UNCHANGED <<today, writers>>

GetNote(in) ==
  \E role \in in.roles, id \in NoteIds(disk) \cup in.probes :
    \E r \in {getNoteById(disk, role, id)} :
       /\ files' = r.files
       /\ dirs' = r.dirs
       /\ last' = Record("getNoteById", role, id, EmptyMap, r)
       /\ UNCHANGED <<today, writers>>

CreateNote(in) ==
  \E role \in in.roles, title \in in.titles, content \in in.contents, tags \in in.tags,
     category \in in.categories :
    \E r \in {createNote(disk, today, role, title, content, tags, category, "bob")} :
       /\ Cardinality(DOMAIN r.files) <= MaxNotes
       /\ files' = r.files
       /\ dirs' = r.dirs
       /\ last' = Record("createNote", role, <<>>,
                         [title |-> title, content |-> content, tags |-> tags,
                          category |-> category, date |-> today], r)
       /\ UNCHANGED <<today, writers>>

\* the field k of an input record, or the one value dflt where the record
\* leaves the argument out
field(in, k, dflt) == IF k \in DOMAIN in THEN in[k] ELSE {dflt}

UpdateNote(in) ==
  \E role \in in.roles, id \in NoteIds(disk) \cup in.probes, tags \in in.updTags,
     title \in field(in, "updTitles", <<>>), content \in field(in, "updContents", <<>>) :
    \E r \in {updateNote(disk, today, role, id, title, content, tags)} :
       /\ files' = r.files
       /\ dirs' = r.dirs
       /\ last' = Record("updateNote", role, id,
                         [title |-> title, content |-> content, tags |-> tags], r)
       /\ UNCHANGED <<today, writers>>

DeleteNote(in) ==
  \E role \in in.roles, id \in NoteIds(disk) \cup in.probes, shouldArchive \in in.archive :
    \E r \in {deleteNote(disk, role, id, shouldArchive)} :
       /\ files' = r.files
       /\ dirs' = r.dirs
       /\ last' = Record("deleteNote", role, id, [archive |-> shouldArchive], r)
       /\ UNCHANGED <<today, writers>>

AppendToNote(in) ==
  \E role \in in.roles, id \in NoteIds(disk) \cup in.probes, content \in in.appContents :
    \E r \in {appendToNote(disk, today, role, id, content)} :
       /\ \A p \in DOMAIN r.files : Len(r.files[p]) <= MaxText
       /\ files' = r.files
       /\ dirs' = r.dirs
       /\ last' = Record("appendToNote", role, id, [content |-> content], r)
       /\ UNCHANGED <<today, writers>>

SearchNotes(in) ==
  \E role \in in.roles, query \in in.queries, filters \in in.filters :
    \E r \in {searchNotes(disk, role, query, filters)} :
       /\ files' = r.files
       /\ dirs' = r.dirs
       /\ last' = Record("searchNotes", role, <<>>,
                         [query |-> query, filters |-> filters, notes |-> r.notes], r)
       /\ UNCHANGED <<today, writers>>

\* one title in one category, callers that may and may not write, and ids
\* inside and outside the root
CoreIn ==
  [roles |-> {"admin", "analytics"},
   titles |-> {ShortTitle},
   contents |-> {Body},
   tags |-> {TagA},
   categories |-> {Topics},
   updTags |-> {Some(TagB)},
   appContents |-> {<<"x">>},
   archive |-> BOOLEAN,
   tagFilters |-> {<<"a">>},
   listCategories |-> {<<>>},
   queries |-> {<<"b">>},
   filters |-> {NoFilters},
   probes |-> {AbsentId} \cup OutsideIds]

Next ==
  \/ ListNotes(CoreIn)
  \/ GetNote(CoreIn)
  \/ CreateNote(CoreIn)
  \/ UpdateNote(CoreIn)
  \/ DeleteNote(CoreIn)
  \/ AppendToNote(CoreIn)
  \/ SearchNotes(CoreIn)

Spec == Init /\ [][Next]_vars

\* a caller that names its own category, one of them beside the root
CategoryIn ==
  [roles |-> {"admin"},
   titles |-> {ShortTitle},
   contents |-> {Body},
   tags |-> {TagA},
   categories |-> {Topics, SiblingDir},
   updTags |-> {Some(TagB)},
   appContents |-> {<<"x">>},
   archive |-> BOOLEAN,
   tagFilters |-> {<<"a">>},
   listCategories |-> {<<>>},
   queries |-> {<<"b">>},
   filters |-> {NoFilters},
   probes |-> {AbsentId}]

NextCategory ==
  \/ ListNotes(CategoryIn)
  \/ GetNote(CategoryIn)
  \/ CreateNote(CategoryIn)
  \/ UpdateNote(CategoryIn)
  \/ DeleteNote(CategoryIn)
  \/ AppendToNote(CategoryIn)
  \/ SearchNotes(CategoryIn)

SpecCategory == Init /\ [][NextCategory]_vars

\* notes whose content does and does not open with a heading, retagged over
\* several days
UpdateIn ==
  [roles |-> {"admin"},
   titles |-> {ShortTitle},
   contents |-> {<<"b">>, <<"#", " ", "H">>, <<" ", "#", " ", "H">>},
   tags |-> {TagA},
   categories |-> {Topics},
   updTags |-> {Some(TagB), Some(<<>>)},
   probes |-> {AbsentId}]

NextUpdate ==
  \/ CreateNote(UpdateIn)
  \/ UpdateNote(UpdateIn)
  \/ GetNote(UpdateIn)
  \/ Tick

SpecUpdate == Init /\ [][NextUpdate]_vars

\* the title of the documented example in two categories, over several days
CreateIn ==
  [roles |-> {"admin"},
   titles |-> {QuantumTitle, <<"A", "-", "-", "b">>},
   contents |-> {<<"b">>},
   tags |-> {TagA},
   categories |-> {Topics, Projects},
   archive |-> {FALSE},
   probes |-> {AbsentId}]

NextCreate ==
  \/ CreateNote(CreateIn)
  \/ GetNote(CreateIn)
  \/ DeleteNote(CreateIn)
  \/ Tick

SpecCreate == Init /\ [][NextCreate]_vars

\* notes with overlapping and disjoint tag lists, listed by tag
TagsIn ==
  [roles |-> {"admin"},
   titles |-> {<<"T">>, <<"U">>, <<"V">>},
   contents |-> {<<"b">>},
   tags |-> TagLists,
   categories |-> {Topics},
   archive |-> {FALSE},
   tagFilters |-> {<<"a">>, <<"a", ",", "b">>, <<"A">>},
   listCategories |-> {<<>>},
   probes |-> {}]

NextTags ==
  \/ CreateNote(TagsIn)
  \/ ListNotes(TagsIn)
  \/ DeleteNote(TagsIn)

SpecTags == Init /\ [][NextTags]_vars

\* a category below another one
Nested == <<"topics", SEP, "projects">>

\* the name of the root directory, and of the directory above it
RootName == <<"n", "o", "t", "e", "s">>

AppName == <<"app">>

\* a search filter that names a category only
ByCategory(c) == [tags |-> <<>>, category |-> c, dateRange |-> None]

\* notes in two categories and in a category nested in one of them, listed
\* and searched by category
FilterIn ==
  [roles |-> {"admin"},
   titles |-> {ShortTitle},
   contents |-> {<<"b">>},
   tags |-> {TagA},
   categories |-> {Topics, Projects, Nested},
   tagFilters |-> {<<>>},
   listCategories |-> {Topics, Projects, RootName},
   queries |-> {<<"b">>},
   filters |-> {ByCategory(Topics), ByCategory(Projects), ByCategory(AppName)},
   archive |-> {FALSE},
   probes |-> {}]

NextFilter ==
  \/ CreateNote(FilterIn)
  \/ ListNotes(FilterIn)
  \/ SearchNotes(FilterIn)
  \/ DeleteNote(FilterIn)

SpecFilter == Init /\ [][NextFilter]_vars

\* an id below the note the callers of AbsentIn create
ThroughId == <<"topics", SEP, D1, "_", "t", MD, SEP, "x", MD>>

\* ids at which nothing exists, before and after a note is created
AbsentIn ==
  [roles |-> {"admin"},
   titles |-> {ShortTitle},
   contents |-> {<<"b">>},
   tags |-> {TagA},
   categories |-> {Topics},
   updTags |-> {Some(TagB)},
   appContents |-> {<<"x">>},
   archive |-> BOOLEAN,
   probes |-> {AbsentId, ThroughId}]

NextAbsent ==
  \/ CreateNote(AbsentIn)
  \/ GetNote(AbsentIn)
  \/ UpdateNote(AbsentIn)
  \/ AppendToNote(AbsentIn)
  \/ DeleteNote(AbsentIn)

SpecAbsent == Init /\ [][NextAbsent]_vars

\* notes whose content does and does not open with a heading, appended to
\* over several days, with and without a newline at the end
AppendIn ==
  [roles |-> {"admin"},
   titles |-> {ShortTitle},
   contents |-> {<<"b">>, <<" ", "#", " ", "H">>},
   tags |-> {TagA},
   categories |-> {Topics},
   appContents |-> {<<"x">>, <<"x", NL>>},
   probes |-> {AbsentId}]

NextAppend ==
  \/ CreateNote(AppendIn)
  \/ AppendToNote(AppendIn)
  \/ GetNote(AppendIn)
  \/ Tick

SpecAppend == Init /\ [][NextAppend]_vars

\* notes that hold the query once and more than once, searched with
\* queries of plain letters and of characters a regular expression reads
\* as operators
SearchIn ==
  [roles |-> {"admin"},
   titles |-> {<<"T">>, <<"U">>},
   contents |-> {<<".", ".">>, <<".", "x", "x", "x">>, <<"(", "x">>},
   tags |-> {TagA},
   categories |-> {Topics},
   queries |-> {<<"x">>, <<".">>, <<"(">>},
   filters |-> {NoFilters},
   probes |-> {}]

NextSearch ==
  \/ CreateNote(SearchIn)
  \/ SearchNotes(SearchIn)

SpecSearch == Init /\ [][NextSearch]_vars

(***************************************************************************)
(* Stores that hold files written by hand: the front matter of a note is   *)
(* optional, and the directory of the store is a volume other programs and *)
(* people write to.  The initial disk holds such files; the operations     *)
(* read it.                                                                *)
(***************************************************************************)
\* a note without front matter
Unfenced == <<"#", " ", "P", NL, NL, "b">>

\* a note as create writes it on the date dt
Dated(dt) ==
  formatNoteContent([date |-> dt, tags |-> TagA, related |-> <<>>, author |-> "bob"],
                    <<"T">>, <<"b">>)

\* a note whose front matter is empty
EmptyBlock == <<FENCE, NL, NL, FENCE, NL, "#", " ", "E", NL, NL, "b">>

\* a note whose front matter is a line of text
ScalarBlock == <<FENCE, NL, "t", "e", "x", "t", NL, FENCE, NL, "b">>

\* a note whose front matter is not YAML
BrokenBlock == <<FENCE, NL, "[", NL, FENCE, NL, "b">>

\* the files of the category topics that may be there at the start
SeedPaths ==
  {pathJoin(NOTES_DIR, <<"topics", SEP, n, MD>>) : n \in {"p", "q", "r"}}

\* the disk that holds the files of a function from paths to texts
Seeded(f) ==
  Disk(f, ancestors(CWD) \cup {CWD, NOTES_DIR, pathJoin(NOTES_DIR, Topics)})

\* any of the files, each with or without front matter and a date
InitSeeded ==
  /\ \E S \in SUBSET SeedPaths :
       \E f \in [S -> {Unfenced} \cup {Dated(dt) : dt \in Range(Dates)}] :
         /\ files = Seeded(f).files
         /\ dirs = Seeded(f).dirs
  /\ today = Dates[1]
  /\ writers = NoWriters
  /\ last = NoOp

\* a search filter that names a date range only
ByDates(start, end) ==
  [tags |-> <<>>, category |-> <<>>, dateRange |-> Some([start |-> start, end |-> end])]

\* the date ranges of the model: open to one side, and closed
DateRanges ==
  {[start |-> start, end |-> end] :
     start \in {None} \cup {Some(dt) : dt \in Range(Dates)},
     end \in {None} \cup {Some(dt) : dt \in Range(Dates)}} \ {[start |-> None, end |-> None]}

SeededIn ==
  [roles |-> {"admin"},
   tagFilters |-> {<<>>},
   listCategories |-> {<<>>},
   queries |-> {<<"b">>},
   filters |-> {ByDates(range.start, range.end) : range \in DateRanges},
   probes |-> {}]

NextSeeded ==
  \/ ListNotes(SeededIn)
  \/ SearchNotes(SeededIn)
  \/ GetNote(SeededIn)

SpecSeeded == InitSeeded /\ [][NextSeeded]_vars

\* up to two files, each a dated note or a note with a damaged front matter
InitDamaged ==
  /\ \E S \in SUBSET (SeedPaths \ {pathJoin(NOTES_DIR, <<"topics", SEP, "r", MD>>)}) :
       \E f \in [S -> {Dated(D1), EmptyBlock, ScalarBlock, BrokenBlock}] :
         /\ files = Seeded(f).files
         /\ dirs = Seeded(f).dirs
  /\ today = Dates[1]
  /\ writers = NoWriters
  /\ last = NoOp

DamagedIn ==
  [roles |-> {"admin"},
   tagFilters |-> {<<>>, <<"a">>},
   listCategories |-> {<<>>},
   queries |-> {<<"b">>},
   filters |-> {NoFilters, ByDates(Some(D1), None)},
   probes |-> {}]

NextDamaged ==
  \/ ListNotes(DamagedIn)
  \/ SearchNotes(DamagedIn)
  \/ GetNote(DamagedIn)

SpecDamaged == InitDamaged /\ [][NextDamaged]_vars

(***************************************************************************)
(* isAuthorized on its own: a role and an operation are drawn, then the    *)
(* function is applied.                                                    *)
(***************************************************************************)
AuthRoles ==
  {"admin", "writing", "research", "analytics", "guest", "Admin", "root",
   "constructor", ""}

AuthOperations ==
  {"create", "read", "update", "delete", "search", "append", "archive", "list",
   "write", "Read", "*", ""}

InitAuth ==
  /\ files = EmptyMap
  /\ dirs = ancestors(CWD) \cup {CWD}
  /\ today = Dates[1]
  /\ writers = NoWriters
  /\ \E role \in AuthRoles, operation \in AuthOperations :
       last = Pending("input", role, [operation |-> operation])

Authorize ==
  /\ last.op = "input"
  /\ last' = [last EXCEPT !.op = "isAuthorized",
                          !.outcome = isAuthorized(last.role, last.args.operation)]
  /\ UNCHANGED <<files, dirs, today, writers>>

NextAuth == Authorize

SpecAuth == InitAuth /\ [][NextAuth]_vars

(***************************************************************************)
(* The router on its own: a request with an API key arrives at a route,    *)
(* passes the two middlewares, and the function of the note model behind   *)
(* the route asks isAuthorized with the role of the request.               *)
(***************************************************************************)
\* the key table of the deployment: a key for each role of the permission
\* table and keys for roles it does not know
API_KEYS ==
  [ka |-> "admin", kw |-> "writing", kr |-> "research", kn |-> "analytics",
   kg |-> "guest", kA |-> "Admin", kc |-> "constructor", ks |-> "*", ke |-> ""]

\* the keys requests carry: those of the table, none, and one not in it
RequestKeys == (DOMAIN API_KEYS) \cup {"", "kx"}

InitRoutes ==
  /\ files = EmptyMap
  /\ dirs = ancestors(CWD) \cup {CWD}
  /\ today = Dates[1]
  /\ writers = NoWriters
  /\ \E r \in router, apiKey \in RequestKeys :
       last = Pending("request", "", [route |-> r, key |-> apiKey, granted |-> ""])

RouteRequest ==
  /\ last.op = "request"
  /\ \E a \in {authenticateAgent(API_KEYS, last.args.key)} :
       last' = [last EXCEPT
                  !.op = "routed",
                  !.role = a.role,
                  !.outcome = IF a.status # "next" THEN a.status
                              ELSE authorize(last.args.route.allowed, a.role),
                  !.args.granted = IF a.status # "next" THEN ""
                                   ELSE isAuthorized(a.role,
                                                     checkedOperation[last.args.route.model])]
  /\ UNCHANGED <<files, dirs, today, writers>>

NextRoutes == RouteRequest

SpecRoutes == InitRoutes /\ [][NextRoutes]_vars

(***************************************************************************)
(* The codec on its own: a metadata mapping, a title and a content are     *)
(* drawn, formatted into a file, and the file is parsed.                   *)
(***************************************************************************)
CodecPath == pathJoin(NOTES_DIR, <<"topics", SEP, "n", MD>>)

CodecMetadata ==
  {EmptyMap,
   [date |-> D1, tags |-> TagA, related |-> <<>>, author |-> "bob"],
   [date |-> D1, tags |-> TagMixed, related |-> <<>>, author |-> "bob",
    lastModified |-> D2]}

CodecTitles == {<<"T">>, <<"H">>}

CodecContents ==
  {<<"b">>,
   <<"b", NL, "c">>,
   <<"b", " ">>,
   <<"#", " ", "T", NL, NL, "b">>,
   <<"#", " ", "H", NL, NL, "b">>,
   <<"#", " ", "T">>}

InitCodec ==
  /\ files = EmptyMap
  /\ dirs = ancestors(CodecPath)
  /\ today = Dates[1]
  /\ writers = NoWriters
  /\ \E metadata \in CodecMetadata, title \in CodecTitles, content \in CodecContents :
       last = Pending("input", "",
                      [metadata |-> metadata, title |-> title, content |-> content])

FormatNote ==
  /\ last.op = "input"
  /\ files' = writeFile(disk, CodecPath,
                        formatNoteContent(last.args.metadata, last.args.title,
                                          last.args.content)).files
  /\ last' = [last EXCEPT !.op = "formatNoteContent"]
  /\ UNCHANGED <<dirs, today, writers>>

ParseNote ==
  /\ last.op = "formatNoteContent"
  /\ last' = [last EXCEPT !.op = "parseNoteContent",
                          !.note = Some(parseNoteContent(files[CodecPath], CodecPath,
                                                         NOTES_DIR))]
  /\ UNCHANGED <<files, dirs, today, writers>>

NextCodec == FormatNote \/ ParseNote

SpecCodec == InitCodec /\ [][NextCodec]_vars

(***************************************************************************)
(* The standalone server: the disk after startup and one action per        *)
(* handler.                                                                *)
(***************************************************************************)
InitIndex ==
  /\ files = EmptyMap
  /\ dirs = startup(Disk(EmptyMap, ancestors(CWD) \cup {CWD})).dirs
  /\ today = Dates[1]
  /\ writers = NoWriters
  /\ last = NoOp

GetNoteRoute(in) ==
  \E role \in in.roles, id \in NoteIds(disk) \cup in.probes :
    \E r \in {getNoteHandler(disk, role, id)} :
       /\ files' = r.files
       /\ dirs' = r.dirs
       /\ last' = Record("GET /notes/:id", role, id, EmptyMap, r)
       /\ UNCHANGED <<today, writers>>

PostNoteRoute(in) ==
  \E role \in in.roles, title \in in.titles, content \in in.contents, tags \in in.tags,
     category \in in.categories :
    \E r \in {postNoteHandler(disk, today, role, title, content, tags, category)} :
       /\ Cardinality(DOMAIN r.files) <= MaxNotes
       /\ files' = r.files
       /\ dirs' = r.dirs
       /\ last' = Record("POST /notes", role, <<>>,
                         [title |-> title, content |-> content, tags |-> tags,
                          category |-> category, date |-> today], r)
       /\ UNCHANGED <<today, writers>>

PutNoteRoute(in) ==
  \E role \in in.roles, id \in NoteIds(disk) \cup in.probes, tags \in in.updTags :
    \E r \in {putNoteHandler(disk, today, role, id, <<>>, <<>>, tags)} :
       /\ \A p \in DOMAIN r.files : Len(r.files[p]) <= MaxText
       /\ files' = r.files
       /\ dirs' = r.dirs
       /\ last' = Record("PUT /notes/:id", role, id, [tags |-> tags], r)
       /\ UNCHANGED <<today, writers>>

DeleteNoteRoute(in) ==
  \E role \in in.roles, id \in NoteIds(disk) \cup in.probes, archive \in in.archive :
    \E r \in {deleteNoteHandler(disk, role, id, archive)} :
       /\ files' = r.files
       /\ dirs' = r.dirs
       /\ last' = Record("DELETE /notes/:id", role, id, [archive |-> archive], r)
       /\ UNCHANGED <<today, writers>>

AppendRoute(in) ==
  \E role \in in.roles, id \in NoteIds(disk) \cup in.probes, content \in in.appContents :
    \E r \in {appendHandler(disk, role, id, content)} :
       /\ \A p \in DOMAIN r.files : Len(r.files[p]) <= MaxText
       /\ files' = r.files
       /\ dirs' = r.dirs
       /\ last' = Record("POST /notes/:id/append", role, id, [content |-> content], r)
       /\ UNCHANGED <<today, writers>>

\* requests with and without their required fields, from a role that may
\* write and one that may not
IndexIn ==
  [roles |-> {"admin", "analytics"},
   titles |-> {ShortTitle, <<>>},
   contents |-> {<<"b">>},
   tags |-> {TagA},
   categories |-> {Topics},
   updTags |-> {Some(TagB)},
   appContents |-> {<<"x">>, <<>>},
   archive |-> BOOLEAN,
   probes |-> {AbsentId}]

NextIndex ==
  \/ GetNoteRoute(IndexIn)
  \/ PostNoteRoute(IndexIn)
  \/ PutNoteRoute(IndexIn)
  \/ DeleteNoteRoute(IndexIn)
  \/ AppendRoute(IndexIn)

SpecIndex == InitIndex /\ [][NextIndex]_vars


\* hand-written notes with and without a heading: without front matter,
\* with a front matter of one key, and with one that is not YAML
Plain == <<"b">>

LateHeading == <<"b", NL, "#", " ", "Q">>

FencedPlain == <<FENCE, NL>> \o yamlDump([date |-> D1]) \o <<FENCE, NL, "b">>

BrokenTitled == <<FENCE, NL, "[", NL, FENCE, NL, "#", " ", "B", NL, NL, "b">>

TitleTexts ==
  {Unfenced, Plain, LateHeading, Dated(D1), FencedPlain, EmptyBlock, ScalarBlock,
   BrokenBlock, BrokenTitled}

InitTitles ==
  /\ \E S \in SUBSET (SeedPaths \ {pathJoin(NOTES_DIR, <<"topics", SEP, "r", MD>>)}) :
       \E f \in [S -> TitleTexts] :
         /\ files = Seeded(f).files
         /\ dirs = Seeded(f).dirs
  /\ today = Dates[1]
  /\ writers = NoWriters
  /\ last = NoOp

TitlesIn ==
  [roles |-> {"admin"},
   tagFilters |-> {<<>>},
   listCategories |-> {<<>>},
   probes |-> {}]

NextTitles ==
  \/ GetNote(TitlesIn)
  \/ ListNotes(TitlesIn)

SpecTitles == InitTitles /\ [][NextTitles]_vars

\* creates that meet a note of the same day and slug: two titles with one
\* slug, two contents, two tag lists, on notes that were or were not updated
OverwriteIn ==
  [roles |-> {"admin"},
   titles |-> {ShortTitle, <<"t">>},
   contents |-> {<<"b">>, <<"c">>},
   tags |-> {TagA, TagB},
   categories |-> {Topics},
   updTags |-> {Some(<<>>)},
   probes |-> {}]

NextOverwrite ==
  \/ CreateNote(OverwriteIn)
  \/ UpdateNote(OverwriteIn)
  \/ GetNote(OverwriteIn)
  \/ Tick

SpecOverwrite == Init /\ [][NextOverwrite]_vars

\* notes of one title in two categories, archived one after the other
ArchiveIn ==
  [roles |-> {"admin"},
   titles |-> {ShortTitle},
   contents |-> {<<"b">>, <<"c">>},
   tags |-> {TagA},
   categories |-> {Topics, Projects},
   archive |-> {TRUE},
   probes |-> {AbsentId}]

NextArchive ==
  \/ CreateNote(ArchiveIn)
  \/ DeleteNote(ArchiveIn)
  \/ GetNote(ArchiveIn)

SpecArchive == Init /\ [][NextArchive]_vars

\* edits of every field: a new title, a new content that opens or does not
\* open with a heading, new tags, alone and together, and appended text
EditIn ==
  [roles |-> {"admin"},
   titles |-> {ShortTitle},
   contents |-> {<<"b">>},
   tags |-> {TagA},
   categories |-> {Topics},
   updTitles |-> {<<>>, <<"U">>},
   updContents |-> {<<>>, <<"c">>, <<"#", " ", "H">>},
   updTags |-> {None, Some(TagB)},
   appContents |-> {<<"x">>},
   tagFilters |-> {<<>>},
   listCategories |-> {<<>>},
   probes |-> {AbsentId}]

NextEdit ==
  \/ CreateNote(EditIn)
  \/ UpdateNote(EditIn)
  \/ AppendToNote(EditIn)
  \/ ListNotes(EditIn)
  \/ GetNote(EditIn)

SpecEdit == Init /\ [][NextEdit]_vars

\* edits of the notes of two categories
IdsIn ==
  [roles |-> {"admin"},
   titles |-> {ShortTitle},
   contents |-> {<<"b">>},
   tags |-> {TagA},
   categories |-> {Topics, Projects},
   updTitles |-> {<<>>, <<"U">>},
   updContents |-> {<<>>},
   updTags |-> {Some(TagB)},
   appContents |-> {<<"x">>},
   tagFilters |-> {<<>>},
   listCategories |-> {<<>>},
   probes |-> {AbsentId}]

NextIds ==
  \/ CreateNote(IdsIn)
  \/ UpdateNote(IdsIn)
  \/ AppendToNote(IdsIn)
  \/ ListNotes(IdsIn)

SpecIds == Init /\ [][NextIds]_vars

(***************************************************************************)
(* Two operations on one note in flight at once.  updateNote and           *)
(* appendToNote await three filesystem calls in turn: fs.access,           *)
(* fs.readFile, fs.writeFile; between two of them the event loop may run   *)
(* a step of the other operation.  A writer is a call with its position    *)
(* (pc), the text it read (existingContent), the day it stamped (now) and  *)
(* its outcome.                                                            *)
(***************************************************************************)
RaceId == Topics \o <<SEP, Dates[1], "_">> \o slugOf(ShortTitle) \o <<MD>>

RacePath == pathJoin(NOTES_DIR, RaceId)

Call(op, content, tags) ==
  [op |-> op, role |-> "admin", title |-> <<>>, content |-> content, tags |-> tags,
   pc |-> "access", existingContent |-> <<>>, now |-> "", outcome |-> ""]

RaceCalls ==
  {Call("updateNote", <<>>, Some(TagB)),
   Call("updateNote", <<"c">>, None),
   Call("appendToNote", <<"x">>, None),
   Call("appendToNote", <<"y">>, None)}

\* the note exists; two calls on it have been received
InitRace ==
  /\ \E r \in {createNote(Disk(EmptyMap, ancestors(NOTES_DIR) \cup {NOTES_DIR}),
                           Dates[1], "admin", ShortTitle, <<"b">>, TagA, Topics, "bob")} :
       /\ files = r.files
       /\ dirs = r.dirs
  /\ today = Dates[1]
  /\ writers \in [1..2 -> RaceCalls]
  /\ last = NoOp

\* variant: the text is read again when the new text is made
rereadContent(wr, d, notePath) == d.files[notePath]

\* the text the writer holds in its local variable from readFile to writeFile
existingContent(wr, d, notePath) == wr.existingContent

\* the text a writer writes back
rewriteOf(wr, text, now) ==
  IF wr.op = "updateNote"
    THEN updatedContent(text, RacePath, now, wr.title, wr.content, wr.tags)
    ELSE appendedContent(text, RacePath, now, wr.content)

Finish(w, outcome) == [writers EXCEPT ![w].pc = "done", ![w].outcome = outcome]

\* the permission, the path check and await fs.access
Access(w) ==
  /\ writers[w].pc = "access"
  /\ \E chk \in {entry(disk, writers[w].role, "update", RaceId, RacePath)} :
       writers' = IF chk.outcome = "pass" THEN [writers EXCEPT ![w].pc = "read"]
                  ELSE Finish(w, chk.outcome)
  /\ UNCHANGED <<files, dirs, today, last>>

\* await fs.readFile
Read(w) ==
  /\ writers[w].pc = "read"
  /\ writers' = IF readErr(disk, RacePath) = "ENOENT" THEN Finish(w, "notfound")
                ELSE IF readErr(disk, RacePath) # "ok" THEN Finish(w, "error")
                ELSE [writers EXCEPT ![w].pc = "write",
                                     ![w].existingContent = files[RacePath]]
  /\ UNCHANGED <<files, dirs, today, last>>

\* the new text is made and await fs.writeFile puts it in place
Write(w) ==
  /\ writers[w].pc = "write"
  /\ \E text \in {rewriteOf(writers[w], existingContent(writers[w], disk, RacePath), today)} :
       IF writeErr(disk, RacePath) # "ok"
         THEN /\ writers' = Finish(w, IF writeErr(disk, RacePath) = "ENOENT"
                                        THEN "notfound" ELSE "error")
              /\ UNCHANGED <<files, dirs, last>>
         ELSE \E d \in {writeFile(disk, RacePath, text)} :
                /\ files' = d.files
                /\ dirs' = d.dirs
                /\ writers' = [Finish(w, "ok") EXCEPT ![w].now = today]
                /\ last' = Record(writers[w].op, writers[w].role, RaceId, [writer |-> w],
                                  Res("ok", RaceId, None, <<>>, d,
                                      <<"access", "readFile", "writeFile">>))
  /\ UNCHANGED today

RaceTick ==
  /\ Tick
  /\ \E w \in DOMAIN writers : writers[w].pc # "done"

NextRace ==
  \/ \E w \in DOMAIN writers : Access(w)
  \/ \E w \in DOMAIN writers : Read(w)
  \/ \E w \in DOMAIN writers : Write(w)
  \/ RaceTick

SpecRace == InitRace /\ [][NextRace]_vars

\* the note is deleted or archived while the two calls are in flight
RemoveIn ==
  [roles |-> {"admin"},
   archive |-> BOOLEAN,
   probes |-> {}]

NextRemove ==
  \/ \E w \in DOMAIN writers : Access(w)
  \/ \E w \in DOMAIN writers : Read(w)
  \/ \E w \in DOMAIN writers : Write(w)
  \/ DeleteNote(RemoveIn)

SpecRemove == InitRace /\ [][NextRemove]_vars

(***************************************************************************)
(* A listing in flight.  getAllNotesInternal awaits fs.readdir for every   *)
(* directory and fs.readFile for every file, one after the other; between  *)
(* two of them another operation may run.  The walker holds the entries    *)
(* it has been handed and not yet processed (todo, the head first) and     *)
(* the notes it has read.                                                  *)
(***************************************************************************)
Walker ==
  [op |-> "getAllNotes", role |-> "admin", pc |-> "start", todo |-> <<>>,
   notes |-> <<>>, outcome |-> ""]

\* the entries fs.readdir finds in a directory
children(d, dirPath) == {p \in (DOMAIN d.files) \cup d.dirs : dirname(p) = dirPath}

\* the orders in which readdir may hand out a set of entries
Orders(S) == {f \in [1..Cardinality(S) -> S] : \A i, j \in DOMAIN f : i # j => f[i] # f[j]}

\* entries with their type at the time of readdir (withFileTypes)
dirents(d, order) == [i \in DOMAIN order |-> [path |-> order[i], dir |-> isDir(d, order[i])]]

\* a note in each of two categories; the listing has been called
InitWalk ==
  /\ \E t \in {createNote(Disk(EmptyMap, ancestors(NOTES_DIR) \cup {NOTES_DIR}),
                           Dates[1], "admin", ShortTitle, <<"b">>, TagA, Topics, "bob")} :
     \E r \in {createNote(Disk(t.files, t.dirs),
                           Dates[1], "admin", <<"U">>, <<"c">>, TagA, Projects, "bob")} :
       /\ files = r.files
       /\ dirs = r.dirs
  /\ today = Dates[1]
  /\ writers = <<Walker>>
  /\ last = NoOp

\* the permission, ensureNotesDirectory and the readdir of the root
WalkStart(w) ==
  /\ writers[w].pc = "start"
  /\ \E g \in {gate(writers[w].role, "read")}, e \in {ensureNotesDirectory(disk)} :
       IF g # "pass"
         THEN /\ writers' = Finish(w, g)
              /\ UNCHANGED <<files, dirs>>
         ELSE /\ files' = e.disk.files
              /\ dirs' = e.disk.dirs
              /\ \E order \in Orders(children(e.disk, NOTES_DIR)) :
                   writers' = [writers EXCEPT ![w].pc = "walk",
                                              ![w].todo = dirents(e.disk, order)]
  /\ UNCHANGED <<today, last>>

\* the next entry: a directory is read and its entries come first, a
\* markdown file is read and parsed, a read that fails is skipped
WalkStep(w) ==
  /\ writers[w].pc = "walk"
  /\ writers[w].todo # <<>>
  /\ \E ent \in {writers[w].todo[1]}, rest \in {Tail(writers[w].todo)} :
       IF ent.dir
         THEN IF ~isDir(disk, ent.path) THEN writers' = Finish(w, "error")
              ELSE \E order \in Orders(children(disk, ent.path)) :
                     writers' = [writers EXCEPT ![w].todo = dirents(disk, order) \o rest]
       ELSE IF endsWith(basename(ent.path), <<MD>>) /\ readErr(disk, ent.path) = "ok"
         THEN writers' = [writers EXCEPT
                            ![w].todo = rest,
                            ![w].notes = Append(@, parseNoteContent(files[ent.path],
                                                                    ent.path, NOTES_DIR))]
       ELSE writers' = [writers EXCEPT ![w].todo = rest]
  /\ UNCHANGED <<files, dirs, today, last>>

\* the walk is over: the notes are sorted and returned
WalkEnd(w) ==
  /\ writers[w].pc = "walk"
  /\ writers[w].todo = <<>>
  /\ writers' = IF sortThrows(writers[w].notes) THEN Finish(w, "error")
                ELSE [Finish(w, "ok") EXCEPT ![w].notes = sortByDate(@)]
  /\ UNCHANGED <<files, dirs, today, last>>

WalkIn ==
  [roles |-> {"admin"},
   archive |-> {TRUE},
   probes |-> {}]

NextWalk ==
  \/ \E w \in DOMAIN writers : WalkStart(w)
  \/ \E w \in DOMAIN writers : WalkStep(w)
  \/ \E w \in DOMAIN writers : WalkEnd(w)
  \/ DeleteNote(WalkIn)

SpecWalk == InitWalk /\ [][NextWalk]_vars
(***************************************************************************)
(* Properties                                                              *)
(***************************************************************************)
\* the path an id names
pathOfId(id) == pathResolve(pathJoin(NOTES_DIR, id))

\* a path is the root or lies below it by whole path segments
insideRoot(p) == p = NOTES_DIR \/ under(p, NOTES_DIR)

\* the operations of the note model that take an id
IdOperations == {"getNoteById", "updateNote", "appendToNote", "deleteNote"}

\* the operations of the note model that read
ReadOperations == {"getNoteById", "getAllNotes", "searchNotes"}

\* C1: a call of get, update, append or delete that passes the permission
\* gate with an id that names a path outside the root (the sibling directory
\* included) ends with the path error before any filesystem call, and an id
\* that names a path inside the root never ends with the path error.
C1_TraversalRejected ==
  (last.op \in IdOperations /\ last.outcome # "denied") =>
    IF insideRoot(pathOfId(last.id))
      THEN last.outcome # "invalid_path"
      ELSE last.outcome = "invalid_path" /\ last.calls = <<>>

\* C2: every file of the store lies below the root, and every id the store
\* hands out (returned by create or archive, carried by a record of get) is
\* relative and names a path inside the root.
C2_InsideRoot ==
  /\ \A p \in DOMAIN files : under(p, NOTES_DIR)
  /\ last.rid # <<>> => ~isAbsolute(last.rid) /\ insideRoot(pathOfId(last.rid))
  /\ last.note # None =>
       \A n \in last.note : ~isAbsolute(n.id) /\ insideRoot(pathOfId(n.id))

\* a result is the permission error, with no filesystem call made and the
\* disk d as it was
Denied(r, d) ==
  r.outcome = "denied" /\ r.files = d.files /\ r.dirs = d.dirs /\ r.calls = <<>>

\* C3: on every disk the role analytics is let through by get, list and
\* search, which give it what they give admin (get of a note of the store,
\* list and search succeed), and is refused with the permission error by
\* create, update, append and delete (archive or not), whatever the
\* arguments, with no filesystem call and the disk unchanged.
C3_AnalyticsGate ==
  /\ \A id \in NoteIds(disk) \cup CoreIn.probes :
       /\ getNoteById(disk, "analytics", id) = getNoteById(disk, "admin", id)
       /\ getNoteById(disk, "analytics", id).outcome # "denied"
       /\ id \in NoteIds(disk) => getNoteById(disk, "analytics", id).outcome = "ok"
       /\ \A title \in {<<>>, ShortTitle}, content \in {<<>>, Body},
             tags \in {None, Some(TagB)} :
            Denied(updateNote(disk, today, "analytics", id, title, content, tags), disk)
       /\ \A content \in {<<>>, <<"x">>} :
            Denied(appendToNote(disk, today, "analytics", id, content), disk)
       /\ \A shouldArchive \in BOOLEAN :
            Denied(deleteNote(disk, "analytics", id, shouldArchive), disk)
  /\ \A title \in {<<>>, ShortTitle}, content \in {<<>>, Body},
        category \in {Topics, SiblingDir} :
       Denied(createNote(disk, today, "analytics", title, content, TagA, category, "bob"),
              disk)
  /\ \A tags \in {<<>>, <<"a">>} :
       /\ getAllNotes(disk, "analytics", tags, <<>>, <<>>).outcome = "ok"
       /\ getAllNotes(disk, "analytics", tags, <<>>, <<>>)
            = getAllNotes(disk, "admin", tags, <<>>, <<>>)
  /\ \A query \in {<<"b">>, <<"x">>} :
       /\ searchNotes(disk, "analytics", query, NoFilters).outcome = "ok"
       /\ searchNotes(disk, "analytics", query, NoFilters)
            = searchNotes(disk, "admin", query, NoFilters)
  /\ last.role = "analytics" =>
       IF last.op \in ReadOperations THEN last.outcome # "denied"
       ELSE last.outcome = "denied" /\ last.calls = <<>>

\* analytics has just been refused the archiving of a note of the store
C3_Witness ==
  /\ last.role = "analytics"
  /\ last.op = "deleteNote"
  /\ last.args.archive
  /\ last.id \in NoteIds(disk)
  /\ last.outcome = "denied"

\* the matrix of the API reference and of the system documentation
Documented(role, operation) ==
  \/ role \in {"admin", "writing"}
       /\ operation \in {"create", "read", "update", "delete", "search"}
  \/ role = "research" /\ operation \in {"create", "read", "update", "search"}
  \/ role = "analytics" /\ operation \in {"read", "search"}

C5_ChecksFirst ==
  /\ last.outcome \in {"denied", "invalid"} => last.calls = <<>>
  /\ (last.op = "PUT /notes/:id" /\ last.role \notin WRITERS /\ last.id = AbsentId) =>
       last.outcome = "denied"

\* C6: parsing a formatted note gives back the metadata, the title and the
\* content that were formatted.
C6_RoundTrip ==
  last.op = "parseNoteContent" =>
    \A n \in last.note :
      /\ n.metadata.map = last.args.metadata
      /\ n.title = last.args.title
      /\ n.content = last.args.content

\* the last path segment of an id
lastSegment(id) == With(split(id, SEP), LAMBDA parts : parts[Len(parts)])

\* the title, content and metadata of a record
essence(n) == <<n.title, n.content, n.metadata>>

\* C7: archiving a note of the store succeeds and returns the id
\* archive/<last segment of the id>; get of the new id then returns the
\* title, content and metadata get of the old id returned before; and when
\* the two ids differ, get of the old id returns nothing.
C7_ArchiveMoves ==
  /\ \A id \in NoteIds(disk) :
       LET before == getNoteById(disk, "admin", id)
           r == deleteNote(disk, "admin", id, TRUE)
           after == Disk(r.files, r.dirs)
       IN before.outcome = "ok" =>
            /\ r.outcome = "ok"
            /\ r.id = <<"archive", SEP>> \o lastSegment(id)
            /\ getNoteById(after, "admin", r.id).outcome = "ok"
            /\ essence(The(getNoteById(after, "admin", r.id).note))
                 = essence(The(before.note))
            /\ r.id # id => getNoteById(after, "admin", id).outcome = "notfound"
  /\ (last.op = "deleteNote" /\ last.args.archive /\ last.outcome = "ok") =>
       /\ last.rid = <<"archive", SEP>> \o lastSegment(last.id)
       /\ getNoteById(disk, "admin", last.rid).outcome = "ok"
       /\ last.rid # last.id => getNoteById(disk, "admin", last.id).outcome = "notfound"

\* a note of topics has just been archived: it is in archive, not in topics
C7_Witness ==
  /\ last.op = "deleteNote"
  /\ last.args.archive
  /\ last.outcome = "ok"
  /\ last.rid # last.id
  /\ isFile(disk, pathJoin(NOTES_DIR, last.rid))
  /\ ~isFile(disk, pathJoin(NOTES_DIR, last.id))

\* the tags and the lastModified of a record
tagsOf(n) == IF "tags" \in DOMAIN n.metadata.map THEN Some(n.metadata.map.tags) ELSE None

modifiedOf(n) ==
  IF "lastModified" \in DOMAIN n.metadata.map THEN Some(n.metadata.map.lastModified)
  ELSE None

\* C8: after an update of a note of the store that supplies only tags, get
\* returns the title and the content it returned before, the supplied tags,
\* and today as lastModified; and after the same update once more, still
\* the same title and content.
C8_TagsOnlyUpdate ==
  \A id \in NoteIds(disk), tags \in TagLists :
    LET before == getNoteById(disk, "admin", id)
        r1 == updateNote(disk, today, "admin", id, <<>>, <<>>, Some(tags))
        d1 == Disk(r1.files, r1.dirs)
        once == getNoteById(d1, "admin", id)
        r2 == updateNote(d1, today, "admin", id, <<>>, <<>>, Some(tags))
        twice == getNoteById(Disk(r2.files, r2.dirs), "admin", id)
    IN (before.outcome = "ok" /\ r1.outcome = "ok") =>
         /\ once.outcome = "ok" /\ r2.outcome = "ok" /\ twice.outcome = "ok"
         /\ The(once.note).title = The(before.note).title
         /\ The(once.note).content = The(before.note).content
         /\ tagsOf(The(once.note)) = Some(tags)
         /\ modifiedOf(The(once.note)) = Some(today)
         /\ The(twice.note).title = The(before.note).title
         /\ The(twice.note).content = The(before.note).content

\* titles that exercise the slug rule: runs at the head, inside and at the
\* end, digits, upper case, and nothing but a run
SlugTitles ==
  {QuantumTitle,
   SubSeq(QuantumTitle, 1, 17),
   <<"A", "-", "-", "b">>,
   <<"!", "a">>,
   <<"9", " ", "Z", ".">>,
   <<"?", "?">>,
   <<"x">>}

\* the positions of a lower-cased title the slug keeps: every character of
\* [a-z0-9], and the first character of every run of other characters
keptPositions(t) == {i \in DOMAIN t : IsAlnum(t[i]) \/ i = 1 \/ IsAlnum(t[i - 1])}

\* the slug rule: the kept positions in order, a run written as "_"
SlugRule(title) ==
  LET t == toLowerCase(title)
      keep == keptPositions(t)
      nth(k) == CHOOSE i \in keep : Cardinality({j \in keep : j < i}) = k - 1
  IN [k \in 1..Cardinality(keep) |-> IF IsAlnum(t[nth(k)]) THEN t[nth(k)] ELSE "_"]

\* the id of the documented example as the code gives it
QuantumId ==
  <<"topics", SEP, "2025-03-15", "_",
    "q", "u", "a", "n", "t", "u", "m", "_",
    "c", "o", "m", "p", "u", "t", "i", "n", "g", "_", MD>>

\* the id of the documented example as the documentation gives it
QuantumIdDocumented ==
  <<"topics", SEP, "2025-03-15", "_",
    "q", "u", "a", "n", "t", "u", "m", "_",
    "c", "o", "m", "p", "u", "t", "i", "n", "g", MD>>

\* C9 (amended): create in a category that is a plain directory name
\* returns the id <category>/<date>_<slug>.md, where the slug is the
\* lower-cased title with every run of characters outside [a-z0-9] written
\* as one "_", a run at the end included: "Quantum Computing!!" in topics
\* on 2025-03-15 gives topics/2025-03-15_quantum_computing_.md.
C9_CreateId ==
  /\ \A title \in SlugTitles, category \in {Topics, Projects} :
       LET r == createNote(disk, today, "admin", title, <<"b">>, TagA, category, "bob")
       IN /\ r.outcome = "ok"
          /\ r.id = category \o <<SEP, today, "_">> \o SlugRule(title) \o <<MD>>
  /\ createNote(disk, D1, "admin", QuantumTitle, <<"b">>, TagA, Topics, "bob").id
       = QuantumId
  /\ (last.op = "createNote" /\ last.outcome = "ok") =>
       last.rid = last.args.category \o <<SEP, last.args.date, "_">>
                    \o SlugRule(last.args.title) \o <<MD>>

\* the documented example has been created
C9_Witness ==
  /\ last.op = "createNote"
  /\ last.outcome = "ok"
  /\ last.args.title = QuantumTitle
  /\ last.args.category = Topics
  /\ last.args.date = D1
  /\ last.rid = QuantumId
  /\ isFile(disk, pathJoin(NOTES_DIR, QuantumId))

\* C9 as stated: the documented example gets the id
\* topics/2025-03-15_quantum_computing.md.
C9_Documented ==
  (last.op = "createNote" /\ last.outcome = "ok" /\ last.args.title = QuantumTitle
     /\ last.args.category = Topics /\ last.args.date = D1) =>
    last.rid = QuantumIdDocumented

\* tag filters as the caller writes them, with the tags they name
TagFilters ==
  {[text |-> <<"a">>, tags |-> {<<"a">>}],
   [text |-> <<"b">>, tags |-> {<<"b">>}],
   [text |-> <<"A">>, tags |-> {<<"A">>}],
   [text |-> <<"a", "b">>, tags |-> {<<"a", "b">>}],
   [text |-> <<"a", ",", "b">>, tags |-> {<<"a">>, <<"b">>}],
   [text |-> <<"b", ",", "A">>, tags |-> {<<"b">>, <<"A">>}],
   [text |-> <<"c">>, tags |-> {<<"c">>}]}

\* the tags the stored note with this id carries
storedTags(d, id) ==
  UNION {IF "tags" \in DOMAIN n.metadata.map THEN Range(n.metadata.map.tags) ELSE {} :
           n \in getNoteById(d, "admin", id).note}

\* C10: list with a tags filter returns, once each, exactly the notes of the
\* store that carry one of the tags of the filter as an element, letter for
\* letter; a note without tags is never among them.
C10_TagFilter ==
  \A f \in TagFilters :
    LET r == getAllNotes(disk, "admin", f.text, <<>>, <<>>)
        want == {id \in NoteIds(disk) : storedTags(disk, id) \cap f.tags # {}}
    IN /\ r.outcome = "ok"
       /\ {r.notes[i].id : i \in DOMAIN r.notes} = want
       /\ Len(r.notes) = Cardinality(want)
       /\ \A i \in DOMAIN r.notes : storedTags(disk, r.notes[i].id) # {}

\* the notes have just been listed by the tag a, with a note tagged a and a
\* note tagged A and ab in the store
C10_Witness ==
  /\ last.op = "getAllNotes"
  /\ last.args.tags = <<"a">>
  /\ last.outcome = "ok"
  /\ \E id1, id2 \in NoteIds(disk) :
       /\ storedTags(disk, id1) = {<<"a">>}
       /\ storedTags(disk, id2) = {<<"A">>, <<"a", "b">>}

\* the first path segment of an id
firstSegment(id) == split(id, SEP)[1]

\* the ids of a sequence of records, as a set
idsOf(notes) == {notes[i].id : i \in DOMAIN notes}

\* the categories a caller may filter by
FilterCategories == {Topics, Projects, <<"archive">>, RootName, AppName}

\* C11: list and search with a category filter return exactly the notes of
\* the store whose id has that category as its first path segment.
C11_CategoryFilter ==
  \A c \in FilterCategories :
    /\ idsOf(getAllNotes(disk, "admin", <<>>, c, <<>>).notes)
         = {id \in NoteIds(disk) : firstSegment(id) = c}
    /\ idsOf(searchNotes(disk, "admin", <<"b">>, ByCategory(c)).notes)
         = {id \in NoteIds(disk) : firstSegment(id) = c}

\* a result is NotFound, with the disk d as it was
NotFoundUnchanged(r, d) ==
  r.outcome = "notfound" /\ r.files = d.files /\ r.dirs = d.dirs

\* C15: for every id inside the root at which nothing exists, get, update,
\* append and delete (archive or not) called by admin report NotFound and
\* leave the disk as it was.
C15_AbsentNotFound ==
  \A id \in AbsentIn.probes :
    (insideRoot(pathOfId(id)) /\ ~accessOk(disk, pathOfId(id))) =>
      /\ NotFoundUnchanged(getNoteById(disk, "admin", id), disk)
      /\ NotFoundUnchanged(updateNote(disk, today, "admin", id, <<>>, <<>>, Some(TagB)),
                           disk)
      /\ NotFoundUnchanged(appendToNote(disk, today, "admin", id, <<"x">>), disk)
      /\ \A shouldArchive \in BOOLEAN :
           NotFoundUnchanged(deleteNote(disk, "admin", id, shouldArchive), disk)

\* the date a record carries, 0 if none: the position in the calendar
dayOf(n) ==
  IF n.metadata.kind = "mapping" /\ "date" \in DOMAIN n.metadata.map
    THEN dateIndex(n.metadata.map.date) ELSE 0

\* C12: list succeeds, and of any two notes it returns that both carry a
\* date, the one with the later date comes first.
C12_DateDescending ==
  /\ getAllNotes(disk, "admin", <<>>, <<>>, <<>>).outcome = "ok"
  /\ \A i, j \in DOMAIN getAllNotes(disk, "admin", <<>>, <<>>, <<>>).notes :
       LET notes == getAllNotes(disk, "admin", <<>>, <<>>, <<>>).notes
       IN (dayOf(notes[i]) > 0 /\ dayOf(notes[j]) > dayOf(notes[i])) => j < i

\* a date, as a position in the calendar, lies within a range, both bounds
\* inclusive
withinBounds(day, range) ==
  /\ \A s \in range.start : dateIndex(s) <= day
  /\ \A e \in range.end : day <= dateIndex(e)

\* C14: search with a date range succeeds and returns exactly the notes
\* that match the query, carry a date, and whose date lies within the
\* bounds, both inclusive; a note without a date is not returned.
C14_DateRange ==
  \A range \in DateRanges :
    LET r == searchNotes(disk, "admin", <<"b">>, ByDates(range.start, range.end))
        all == getAllNotes(disk, "admin", <<>>, <<>>, <<>>).notes
    IN /\ r.outcome = "ok"
       /\ idsOf(r.notes) = {all[i].id : i \in {k \in DOMAIN all :
                                                 /\ dayOf(all[k]) > 0
                                                 /\ withinBounds(dayOf(all[k]), range)}}

\* the records of a disk that decode to a mapping, by id
soundIds(d) ==
  {id \in NoteIds(d) :
     \E n \in getNoteById(d, "admin", id).note : n.metadata.kind = "mapping"}

\* C16: on a store with a file whose front matter is empty, is not a
\* mapping or cannot be decoded, list and search complete and return every
\* other note of the store.
C16_BadFileIsolated ==
  /\ getAllNotes(disk, "admin", <<>>, <<>>, <<>>).outcome = "ok"
  /\ soundIds(disk) \subseteq idsOf(getAllNotes(disk, "admin", <<>>, <<>>, <<>>).notes)
  /\ getAllNotes(disk, "admin", <<"a">>, <<>>, <<>>).outcome = "ok"
  /\ searchNotes(disk, "admin", <<"b">>, NoFilters).outcome = "ok"
  /\ soundIds(disk) \subseteq idsOf(searchNotes(disk, "admin", <<"b">>, NoFilters).notes)
  /\ searchNotes(disk, "admin", <<"b">>, ByDates(Some(D1), None)).outcome = "ok"

\* the text between the fences of a file, if the file opens with a block
blockOf(text) ==
  IF fenceEnd(text) = 0 THEN None ELSE Some(SubSeq(text, 3, fenceEnd(text) - 1))

\* C17: the record parseNoteContent returns for a file of the store carries
\* a mapping as metadata, the empty one when the file has no front matter,
\* an empty block or an undecodable block; for an undecodable block the
\* content is the whole text of the file.
C17_MetadataIsMapping ==
  \A p \in DOMAIN files :
    LET n == parseNoteContent(files[p], p, NOTES_DIR)
    IN /\ n.metadata.kind = "mapping"
       /\ files[p] \in {Unfenced, EmptyBlock, BrokenBlock} => n.metadata.map = EmptyMap
       /\ files[p] = BrokenBlock => n.content = files[p]

\* the number of occurrences of the string q in a text from position i on,
\* none overlapping another
RECURSIVE occurrencesFrom(_, _, _)
occurrencesFrom(text, q, i) ==
  IF i + Len(q) - 1 > Len(text) THEN 0
  ELSE IF SubSeq(text, i, i + Len(q) - 1) = q
    THEN 1 + occurrencesFrom(text, q, i + Len(q))
  ELSE occurrencesFrom(text, q, i + 1)

\* occurrences(query, title) + occurrences(query, content), in any letter case
occurrences(n, query) ==
  occurrencesFrom(toLowerCase(n.title), toLowerCase(query), 1)
    + occurrencesFrom(toLowerCase(n.content), toLowerCase(query), 1)

\* C13: search succeeds for every non-empty query, and a note that holds
\* the query, taken as a string, more often than another comes before it.
C13_RelevanceOrder ==
  \A query \in SearchIn.queries :
    LET r == searchNotes(disk, "admin", query, NoFilters)
    IN /\ r.outcome = "ok"
       /\ \A i, j \in DOMAIN r.notes :
            occurrences(r.notes[i], query) > occurrences(r.notes[j], query) => i < j

\* a mapping without its key lastModified
exceptModified(m) == [k \in (DOMAIN m) \ {"lastModified"} |-> m[k]]

\* C18: after an append of c to a note of the store whose content is b, get
\* returns the content b, a blank line, c, the title it returned before,
\* today as lastModified, and every other key of the metadata as before.
C18_AppendKeeps ==
  \A id \in NoteIds(disk), c \in AppendIn.appContents :
    LET before == getNoteById(disk, "admin", id)
        r == appendToNote(disk, today, "admin", id, c)
        after == getNoteById(Disk(r.files, r.dirs), "admin", id)
    IN (before.outcome = "ok" /\ r.outcome = "ok") =>
         /\ after.outcome = "ok"
         /\ The(after.note).content = The(before.note).content \o <<NL, NL>> \o c
         /\ The(after.note).title = The(before.note).title
         /\ modifiedOf(The(after.note)) = Some(today)
         /\ exceptModified(The(after.note).metadata.map)
              = exceptModified(The(before.note).metadata.map)

\* C19: an id on which delete has just succeeded (a hard delete, or an
\* archive to another id) is not given a record again by the next
\* operation of the store, whichever it is.
C19_Terminal ==
  [][(last.op = "deleteNote" /\ last.outcome = "ok" /\ last.rid # last.id) =>
       getNoteById(Disk(files', dirs'), "admin", last.id).outcome # "ok"]_vars


\* every call on the note has returned
allReturned == \A w \in DOMAIN writers : writers[w].pc = "done"

\* C20: when two update/append calls on one id interleave between their
\* filesystem calls, each returns success, and the file is exactly what the
\* call whose writeFile ran last made from the text that call had read; no
\* version check or lock stands in the way
C20_LastWriteWins ==
  /\ \A w \in DOMAIN writers : writers[w].pc = "done" => writers[w].outcome = "ok"
  /\ last.op \in {"updateNote", "appendToNote"} =>
       With(writers[last.args.writer],
            LAMBDA wr : files[RacePath] = rewriteOf(wr, wr.existingContent, wr.now))

\* both calls read the note before either wrote: the text appended by the
\* call that wrote first is not in the file
C20_Witness ==
  /\ allReturned
  /\ \E w, v \in DOMAIN writers :
       /\ w # v
       /\ last.op = "appendToNote" /\ last.args.writer = w
       /\ writers[v].op = "appendToNote" /\ writers[v].outcome = "ok"
       /\ writers[v].content # writers[w].content
       /\ writers[v].existingContent = writers[w].existingContent
       /\ ~includes(parseNoteContent(files[RacePath], RacePath, NOTES_DIR).content,
                    writers[v].content)

\* the ids list returns to a role that may read
listedIds(d) == idsOf(getAllNotes(d, "admin", <<>>, <<>>, <<>>).notes)

\* C21: update and append change neither the id of a note nor the ids in
\* the store: the id in their result is the id they were given, and the
\* files of the store and the ids list returns are the same before and after
C21_IdsStable ==
  [][last'.op \in {"updateNote", "appendToNote"} =>
       /\ last'.outcome = "ok" => last'.rid = last'.id
       /\ NoteIds(Disk(files', dirs')) = NoteIds(disk)
       /\ listedIds(Disk(files', dirs')) = listedIds(disk)]_vars

\* two notes are in the store and one of them has got a new title
C21_Witness ==
  /\ last.op = "updateNote"
  /\ last.outcome = "ok"
  /\ last.args.title # <<>>
  /\ Cardinality(listedIds(disk)) = 2
  /\ last.id \in listedIds(disk)

\* the lines of a text
linesOf(text) == split(text, NL)

\* the line that closes the front matter: the first "---" line after the
\* opening one and at least one line of block, with a line after it; 0 if
\* the text has no front matter
closingLine(ls) ==
  IF ls[1] # <<FENCE>> \/ ~\E k \in 3..(Len(ls) - 1) : ls[k] = <<FENCE>> THEN 0
  ELSE CHOOSE k \in 3..(Len(ls) - 1) :
         ls[k] = <<FENCE>> /\ \A j \in 3..(k - 1) : ls[j] # <<FENCE>>

\* the lines of the body: those after the front matter, all without one
bodyLines(text) ==
  With(linesOf(text), LAMBDA ls : SubSeq(ls, closingLine(ls) + 1, Len(ls)))

isHeadingLine(l) == Len(l) >= 2 /\ l[1] = "#" /\ l[2] = " "

\* the title the rule gives: the text of the first '# ' line, else the stem
titleRule(text, stem) ==
  With(bodyLines(text),
       LAMBDA ls :
    IF \E k \in DOMAIN ls : isHeadingLine(ls[k])
      THEN With(CHOOSE k \in DOMAIN ls :
                  isHeadingLine(ls[k]) /\ \A j \in 1..(k - 1) : ~isHeadingLine(ls[j]),
                LAMBDA k : SubSeq(ls[k], 3, Len(ls[k])))
      ELSE stem)

\* C22: the title of a note is the text of the first line '# <text>' of
\* its body, and the stem of its file name when the body has no such line,
\* whether the front matter is well formed, absent or not decodable
C22_TitleRule ==
  (last.op = "getNoteById" /\ last.outcome = "ok") =>
     The(last.note).title =
       titleRule(files[pathOfId(last.id)], basenameExt(pathOfId(last.id), <<MD>>))

\* metadata.author, as an optional value
authorOf(n) ==
  IF "author" \in DOMAIN n.metadata.map THEN Some(n.metadata.map.author) ELSE None

\* C23: a create that meets a note at the id it computes succeeds; then the
\* one note at that id has the new title, content, tags and author, the
\* current date and no lastModified, and the store holds as many notes as
\* before
C23_Overwrite ==
  [][(last'.op = "createNote" /\ last'.outcome = "ok"
        /\ isFile(disk, pathOfId(last'.rid))) =>
       /\ Cardinality(DOMAIN files') = Cardinality(DOMAIN files)
       /\ With(getNoteById(Disk(files', dirs'), "admin", last'.rid),
               LAMBDA g :
            /\ g.outcome = "ok"
            /\ The(g.note).title = last'.args.title
            /\ The(g.note).content = last'.args.content
            /\ tagsOf(The(g.note)) = Some(last'.args.tags)
            /\ authorOf(The(g.note)) = Some("bob")
            /\ dateOf(The(g.note)) = Some(last'.args.date)
            /\ modifiedOf(The(g.note)) = None)]_vars

\* C24: after a successful update that gives a new title and no content,
\* get returns that title
C24_TitleStored ==
  (last.op = "updateNote" /\ last.outcome = "ok"
     /\ last.args.title # <<>> /\ last.args.content = <<>>) =>
    With(getNoteById(disk, "admin", last.id),
         LAMBDA g : g.outcome = "ok" /\ The(g.note).title = last.args.title)

\* where archiving puts the note of the two calls
RaceArchivePath == pathJoin(pathJoin(NOTES_DIR, <<"archive">>), basename(RacePath))

\* C25: once a delete or archive of the id has succeeded and nothing creates
\* the id again, get of the id is NotFound in every later state, whatever
\* the calls in flight have done before; an archived note is never at its
\* old and its new id at once
C25_GoneForGood ==
  [][/\ getNoteById(disk, "admin", RaceId).outcome # "ok" =>
          getNoteById(Disk(files', dirs'), "admin", RaceId).outcome = "notfound"
     /\ ~(isFile(Disk(files', dirs'), RacePath)
            /\ isFile(Disk(files', dirs'), RaceArchivePath))]_vars

\* C26: archiving a note changes no other note: every other note of the
\* store, those under archive/ included, is read afterwards under its id
\* with the title, content and metadata it had, also when notes of
\* different directories have the same file name
C26_ArchiveFrame ==
  [][(last'.op = "deleteNote" /\ last'.outcome = "ok" /\ last'.args.archive) =>
       \A id \in NoteIds(disk) \ {last'.id} :
         With([before |-> getNoteById(disk, "admin", id),
               after |-> getNoteById(Disk(files', dirs'), "admin", id)],
              LAMBDA x :
           x.before.outcome = "ok" =>
             /\ x.after.outcome = "ok"
             /\ essence(The(x.after.note)) = essence(The(x.before.note)))]_vars

\* the file names of the notes in the store
noteNames(d) == {basename(p) : p \in DOMAIN d.files}

\* C27: a listing that runs while a note is archived returns that note
\* exactly once, under its old or its new id
C27_ExactlyOnce ==
  \A w \in DOMAIN writers :
    (writers[w].op = "getAllNotes" /\ writers[w].pc = "done" /\ writers[w].outcome = "ok") =>
      \A name \in noteNames(disk) :
        Cardinality({i \in DOMAIN writers[w].notes :
                       lastSegment(writers[w].notes[i].id) = name}) = 1

\* the roles a request can carry: the values of the key table but the empty one
RequestRoles == {API_KEYS[k] : k \in DOMAIN API_KEYS} \ {""}

\* C28: the role lists of the routes and the permission table agree: on
\* every route the middleware lets a role pass if and only if isAuthorized
\* grants the role the operation that the model function behind the route
\* checks
C28_RoutesAgree ==
  /\ \A r \in router, role \in RequestRoles :
       authorize(r.allowed, role) = "next"
         <=> isAuthorized(role, checkedOperation[r.model]) = "true"
  /\ (last.op = "routed" /\ last.role # "") =>
       (last.outcome = "next" <=> last.args.granted = "true")

\* research has asked to delete: the route answers 403, and the model
\* would have refused
C28_Witness ==
  /\ last.op = "routed"
  /\ last.role = "research"
  /\ last.args.route.model = "deleteNote"
  /\ last.outcome = "403"
  /\ last.args.granted = "false"

\* the notes of a disk as they are read: title, content and metadata by path
decoded(d) ==
  [p \in DOMAIN d.files |-> essence(parseNoteContent(d.files[p], p, NOTES_DIR))]

\* the answer of the router to a request: the refusal of its middleware, or
\* the result of the function of the note model behind the route
routed(d, now, call) ==
  With(CHOOSE r \in router : r.model = call.model,
       LAMBDA r :
    IF authorize(r.allowed, call.role) # "next" THEN Fail("denied", d, <<>>)
    ELSE IF call.model = "getNoteById" THEN getNoteById(d, call.role, call.id)
    ELSE IF call.model = "updateNote"
      THEN updateNote(d, now, call.role, call.id, <<>>, <<>>, call.args.tags)
    ELSE IF call.model = "appendToNote"
      THEN appendToNote(d, now, call.role, call.id, call.args.content)
    ELSE deleteNote(d, call.role, call.id, call.args.archive))

\* the function of the note model that serves a request of the server
modelOf ==
  [x \in {"GET /notes/:id", "PUT /notes/:id", "POST /notes/:id/append", "DELETE /notes/:id"} |->
     IF x = "GET /notes/:id" THEN "getNoteById"
     ELSE IF x = "PUT /notes/:id" THEN "updateNote"
     ELSE IF x = "POST /notes/:id/append" THEN "appendToNote"
     ELSE "deleteNote"]

\* C29: the handlers of the standalone server and the router with the note
\* model answer a request alike: from the same store, for the same role and
\* request, the outcome is of the same class and the files left are the
\* same notes, with the same title, content and metadata
C29_ServersAgree ==
  [][(last'.op \in DOMAIN modelOf /\ last'.outcome # "invalid") =>
       With(routed(disk, today,
                   [model |-> modelOf[last'.op], role |-> last'.role,
                    id |-> last'.id, args |-> last'.args]),
            LAMBDA m :
         /\ m.outcome = last'.outcome
         /\ decoded(Disk(m.files, m.dirs)) = decoded(Disk(files', dirs')))]_vars

\* C30: a search with a non-empty query by a role that may read ends with
\* a result list, never in an error, whatever characters the query holds
\* and however many notes match
C30_SearchCompletes ==
  (last.op = "searchNotes" /\ last.args.query # <<>>
     /\ isAuthorized(last.role, "read") = "true") =>
    last.outcome = "ok"
====
